---- MODULE Spec2Model ----
(***************************************************************************)
(* Model of the filtered segment sampling engine of mugen:                 *)
(*   FilteredVideoSegment    (mugen/video/segments/VideoSegment.py)        *)
(*   FilteredVideoSource     (mugen/video/sources/VideoSource.py)          *)
(*   FilteredVideoSourceList (mugen/video/sources/VideoSource.py)          *)
(* Times are whole ticks.  A FilteredVideoSegment object is identified by  *)
(* <<leaf, duration, index>>: the source that owns it, the key of its      *)
(* bucket in source.segments and its position in that bucket.              *)
(***************************************************************************)
EXTENDS Integers, Sequences, FiniteSets, TLC

\* ---------------------------------------------------------------- bounds
\* Longest video (VideoSegment.duration) a source is built from.
MaxLen == 3
\* Longest duration that is configured or requested.
MaxDur == 2
\* Most FilteredVideoSegment objects a collection holds.
MaxSegments == 3
\* Largest weight of a source.
MaxWeight == 2

Files == {"a", "b"}
Leaves == {1, 2}
Preds == {"has_text"}

\* ------------------------------------------------------- the filter names
\* VideoFilter: every filter and its not_ counterpart.
VideoFilter == {"has_text", "not_has_text", "is_repeat", "not_is_repeat"}

\* video_filter.name.startswith("not_")
StartsWithNot(name) == name \in {"not_has_text", "not_is_repeat"}

\* name[4:] for a not_ name, "not_" + name otherwise
OtherPolarity(name) ==
    CASE name = "has_text" -> "not_has_text"
      [] name = "not_has_text" -> "has_text"
      [] name = "is_repeat" -> "not_is_repeat"
      [] name = "not_is_repeat" -> "is_repeat"

\* The predicate function behind a filter name.
Underlying(name) == IF StartsWithNot(name) THEN OtherPolarity(name) ELSE name

\* The filter lists a caller passes, in the caller's order.
FilterLists ==
    { <<>>,
      <<"not_is_repeat">>,
      <<"not_has_text">>,
      <<"not_is_repeat", "not_has_text">>,
      <<"has_text", "not_has_text">>,
      <<"is_repeat">> }

\* The filter lists a collection is configured with.
ConfiguredFilterLists == { <<"not_is_repeat", "not_has_text">> }

VARIABLES
    tree,       \* the root FilteredVideoSourceList: its children, in order
    file,       \* FilteredVideoSource.file of every leaf
    length,     \* VideoSegment(file).duration of every file
    text,       \* the ticks of every file that show text (the detector's input)
    filters,    \* FilteredVideoSourceList.filters
    weight,     \* FilteredVideoSource.weight of every leaf
    segments,   \* FilteredVideoSource.segments of every leaf
    used,       \* the clips returned by sample calls so far
    called,     \* the arguments of the calls under way on constructors, clips
                \* and, by several callers, on sample
    returned,   \* what those calls returned or raised
    slices,     \* webui BeatGroups.slices
    beats,      \* webui BeatGroups.beats, as the number of beats of the audio
    settings,   \* webui UI.settings
    generator   \* webui UI.generator

vars ==
    <<tree, file, length, text, filters, weight, segments, used, called, returned,
      slices, beats, settings, generator>>

\* The variables of the web UI.
UI == <<slices, beats, settings, generator>>

\* Python's None, for an attribute or an argument that holds a value in a
\* one-element tuple otherwise.
None == <<>>

\* UI.default_settings, for the settings generate reads.
default_settings ==
    [allow_repeats |-> FALSE, has_text |-> "Off", has_cut |-> "Exclude",
     has_low_contrast |-> "Exclude"]

\* The web UI has not been launched.
NoUI ==
    /\ slices = <<>>
    /\ beats = None
    /\ settings = default_settings
    /\ generator = None

\* ------------------------------------------------ FilteredVideoSegment
\* mugen.utilities.general.check_if_ranges_overlap
check_if_ranges_overlap(x1, x2, y1, y2) == x1 < y2 /\ y1 < x2

\* FilteredVideoSegment.__init__
FilteredVideoSegment(f, start, end) ==
    [file |-> f, start |-> start, end |-> end,
     filters |-> [n \in {"is_repeat", "not_is_repeat"} |-> n = "not_is_repeat"],
     rejected |-> "None",
     evals |-> [p \in Preds |-> 0]]

\* FilteredVideoSegment.overlaps_segment
overlaps_segment(self, segment) ==
    IF ~(self.file = segment.file)
    THEN FALSE
    ELSE check_if_ranges_overlap(self.start, self.end, segment.start, segment.end)

\* filters.has_text on the clip of a segment: text shows in one of its ticks.
has_text(seg) == \E t \in text[seg.file] : seg.start <= t /\ t < seg.end

\* Filter.__call__ on self.segment
ApplyFilter(name, seg) ==
    IF StartsWithNot(name) THEN ~has_text(seg) ELSE has_text(seg)

\* reject without its guard: a verdict of False is overwritten.
reject_unguarded(seg) == [seg EXCEPT !.rejected = "True"]

\* FilteredVideoSegment.reject
reject(seg) ==
    IF seg.rejected = "None" THEN [seg EXCEPT !.rejected = "True"] ELSE seg

\* passes_filters that looks only for the filter names and not at the
\* cached values.
RECURSIVE passes_filters_any_value(_, _)
passes_filters_any_value(seg, video_filters) ==
    IF video_filters = <<>>
    THEN [seg |-> [seg EXCEPT !.rejected = "False"], ok |-> TRUE]
    ELSE IF Head(video_filters) \notin DOMAIN seg.filters
    THEN [seg |-> reject(seg), ok |-> FALSE]
    ELSE passes_filters_any_value(seg, Tail(video_filters))

\* passes_filters that lets a filter without a cached result pass.
RECURSIVE passes_filters_uncached_pass(_, _)
passes_filters_uncached_pass(seg, video_filters) ==
    IF video_filters = <<>>
    THEN [seg |-> [seg EXCEPT !.rejected = "False"], ok |-> TRUE]
    ELSE IF Head(video_filters) \in DOMAIN seg.filters
            /\ ~seg.filters[Head(video_filters)]
    THEN [seg |-> reject(seg), ok |-> FALSE]
    ELSE passes_filters_uncached_pass(seg, Tail(video_filters))

\* passes_filters that returns False without calling reject.
RECURSIVE passes_filters_no_reject(_, _)
passes_filters_no_reject(seg, video_filters) ==
    IF video_filters = <<>>
    THEN [seg |-> [seg EXCEPT !.rejected = "False"], ok |-> TRUE]
    ELSE IF Head(video_filters) \notin DOMAIN seg.filters
            \/ ~seg.filters[Head(video_filters)]
    THEN [seg |-> seg, ok |-> FALSE]
    ELSE passes_filters_no_reject(seg, Tail(video_filters))

\* FilteredVideoSegment.passes_filters: the segment after the call and the
\* value the call returns.
RECURSIVE passes_filters(_, _)
passes_filters(seg, video_filters) ==
    IF video_filters = <<>>
    THEN [seg |-> [seg EXCEPT !.rejected = "False"], ok |-> TRUE]
    ELSE IF Head(video_filters) \notin DOMAIN seg.filters
    THEN [seg |-> reject(seg), ok |-> FALSE]
    ELSE IF ~seg.filters[Head(video_filters)]
    THEN [seg |-> reject(seg), ok |-> FALSE]
    ELSE passes_filters(seg, Tail(video_filters))

\* filter that stores the result under the evaluated name only.
StoreResult_one_polarity(seg, name, result) ==
    [seg EXCEPT
       !.filters = (name :> result) @@ @,
       !.evals[Underlying(name)] = @ + 1]

\* The two entries FilteredVideoSegment.filter stores for one evaluated filter.
StoreResult(seg, name, result) ==
    [seg EXCEPT
       !.filters = (name :> result) @@ (OtherPolarity(name) :> ~result) @@ @,
       !.evals[Underlying(name)] = @ + 1]

\* FilteredVideoSegment.filter
RECURSIVE filter(_, _)
filter(seg, video_filters) ==
    IF video_filters = <<>>
    THEN seg
    ELSE IF Head(video_filters) \notin DOMAIN seg.filters
    THEN filter(StoreResult(seg, Head(video_filters),
                            ApplyFilter(Head(video_filters), seg)),
                Tail(video_filters))
    ELSE filter(seg, Tail(video_filters))

\* The time range of a segment, as the clip FilteredVideoSegment.segment
\* is cut from: VideoSegment(file).subclip(start, end).
Clip(seg) == [file |-> seg.file, start |-> seg.start, end |-> seg.end]

\* ------------------------------------------------- FilteredVideoSource
\* The loop running while a segment starts inside the video.
RECURSIVE Bucket_until_end(_, _, _, _)
Bucket_until_end(f, len, duration, i) ==
    IF i < len
    THEN <<FilteredVideoSegment(f, i, i + duration)>>
         \o Bucket_until_end(f, len, duration, i + duration)
    ELSE <<>>

\* The while loop of FilteredVideoSource.__init__ for one duration.
RECURSIVE Bucket(_, _, _, _)
Bucket(f, len, duration, i) ==
    IF i < len - duration
    THEN <<FilteredVideoSegment(f, i, i + duration)>>
         \o Bucket(f, len, duration, i + duration)
    ELSE <<>>

\* FilteredVideoSource.__init__: self.segments
FilteredVideoSource(f, len, durations) ==
    [d \in durations |-> Bucket(f, len, d, 0)]

\* filter_segments that stops after the first bucket.
filter_segments_one_bucket(segs, video_filters) ==
    [d \in DOMAIN segs |->
        IF d = (CHOOSE x \in DOMAIN segs : \A y \in DOMAIN segs : x <= y)
        THEN [i \in 1..Len(segs[d]) |-> filter(segs[d][i], video_filters)]
        ELSE segs[d]]

\* FilteredVideoSource.filter_segments
filter_segments(segs, video_filters) ==
    [d \in DOMAIN segs |->
        [i \in 1..Len(segs[d]) |-> filter(segs[d][i], video_filters)]]

\* get_filtered_segments that evaluates the segments of every bucket.
get_filtered_segments_all_buckets(segs, duration, video_filters) ==
    IF duration \notin DOMAIN segs
    THEN [segs |-> segs, found |-> {}]
    ELSE [segs |-> [d \in DOMAIN segs |->
                      [i \in 1..Len(segs[d]) |->
                          passes_filters(segs[d][i], video_filters).seg]],
          found |-> { i \in 1..Len(segs[duration]) :
                        passes_filters(segs[duration][i], video_filters).ok }]

\* get_filtered_segments that evaluates the filters of the list that have no
\* cached result before it reads the cache.
get_filtered_segments_lazy(segs, duration, video_filters) ==
    IF duration \notin DOMAIN segs
    THEN [segs |-> segs, found |-> {}]
    ELSE [segs |-> [segs EXCEPT ![duration] =
                      [i \in 1..Len(@) |->
                          passes_filters(filter(@[i], video_filters),
                                         video_filters).seg]],
          found |-> { i \in 1..Len(segs[duration]) :
                        passes_filters(filter(segs[duration][i], video_filters),
                                       video_filters).ok }]

\* get_filtered_segments that opens an empty bucket for a duration the
\* source has none for.
get_filtered_segments_new_bucket(segs, duration, video_filters) ==
    IF duration \notin DOMAIN segs
    THEN [segs |-> (duration :> <<>>) @@ segs, found |-> {}]
    ELSE [segs |-> [segs EXCEPT ![duration] =
                      [i \in 1..Len(@) |-> passes_filters(@[i], video_filters).seg]],
          found |-> { i \in 1..Len(segs[duration]) :
                        passes_filters(segs[duration][i], video_filters).ok }]

\* FilteredVideoSource.get_filtered_segments: the source's segments after
\* the call and the positions, in the bucket, of the segments it returns.
get_filtered_segments(segs, duration, video_filters) ==
    IF duration \notin DOMAIN segs
    THEN [segs |-> segs, found |-> {}]
    ELSE [segs |-> [segs EXCEPT ![duration] =
                      [i \in 1..Len(@) |-> passes_filters(@[i], video_filters).seg]],
          found |-> { i \in 1..Len(segs[duration]) :
                        passes_filters(segs[duration][i], video_filters).ok }]

\* An update that sets is_repeat and leaves not_is_repeat as it was.
MarkRepeat_is_repeat_only(seg) ==
    [seg EXCEPT !.filters = ("is_repeat" :> TRUE) @@ @]

\* An update that flips the repeat pair.
MarkRepeat_toggle(seg) ==
    [seg EXCEPT !.filters =
        ("is_repeat" :> ~@["is_repeat"]) @@ ("not_is_repeat" :> @["is_repeat"]) @@ @]

\* filters.update({'is_repeat': True, 'not_is_repeat': False})
MarkRepeat(seg) ==
    [seg EXCEPT !.filters =
        ("is_repeat" :> TRUE) @@ ("not_is_repeat" :> FALSE) @@ @]

\* sample_segment whose loop runs over the bucket of the chosen segment only.
sample_segment_same_bucket(segs, duration, index) ==
    [d \in DOMAIN segs |->
        [i \in 1..Len(segs[d]) |->
            IF d = duration
               /\ (i = index \/ overlaps_segment(segs[d][i], segs[duration][index]))
            THEN MarkRepeat(segs[d][i])
            ELSE segs[d][i]]]

\* sample_segment that marks every segment of the chosen segment's bucket.
sample_segment_whole_bucket(segs, duration, index) ==
    [d \in DOMAIN segs |->
        [i \in 1..Len(segs[d]) |->
            IF d = duration
               \/ overlaps_segment(segs[d][i], segs[duration][index])
            THEN MarkRepeat(segs[d][i])
            ELSE segs[d][i]]]

\* sample_segment that assigns the repeat pair as the whole filters dict
\* of each segment it marks.
sample_segment_reset(segs, duration, index) ==
    [d \in DOMAIN segs |->
        [i \in 1..Len(segs[d]) |->
            IF (d = duration /\ i = index)
               \/ overlaps_segment(segs[d][i], segs[duration][index])
            THEN [segs[d][i] EXCEPT !.filters =
                    ("is_repeat" :> TRUE) @@ ("not_is_repeat" :> FALSE)]
            ELSE segs[d][i]]]

\* FilteredVideoSource.sample_segment
sample_segment(segs, duration, index) ==
    [d \in DOMAIN segs |->
        [i \in 1..Len(segs[d]) |->
            IF (d = duration /\ i = index)
               \/ overlaps_segment(segs[d][i], segs[duration][index])
            THEN MarkRepeat(segs[d][i])
            ELSE segs[d][i]]]

\* ---------------------------------------------- FilteredVideoSourceList
Source(l) == [kind |-> "source", leaves |-> <<l>>]
SourceList(ls) == [kind |-> "list", leaves |-> ls]

\* The leaves of a tree, nested lists included, in order.
RECURSIVE LeavesOf(_)
LeavesOf(children) ==
    IF children = <<>>
    THEN <<>>
    ELSE Head(children).leaves \o LeavesOf(Tail(children))

\* The leaf is one of the sources of the collection.
InTree(l) == \E k \in 1..Len(LeavesOf(tree)) : LeavesOf(tree)[k] = l

\* The loop of FilteredVideoSourceList.get_filtered_sources over the children
\* of the list.  A child that is itself a FilteredVideoSourceList has no
\* get_filtered_segments method: the loop ends there with AttributeError,
\* after the children before it have been evaluated.
RECURSIVE get_filtered_sources(_, _, _, _, _)
get_filtered_sources(children, segs, duration, video_filters, found) ==
    IF children = <<>>
    THEN [segments |-> segs, sources |-> found, error |-> "none"]
    ELSE IF Head(children).kind = "list"
    THEN [segments |-> segs, sources |-> found, error |-> "AttributeError"]
    ELSE LET l == Head(children).leaves[1]
             r == get_filtered_segments(segs[l], duration, video_filters)
         IN  get_filtered_sources(Tail(children),
                                  [segs EXCEPT ![l] = r.segs],
                                  duration, video_filters,
                                  IF Cardinality(r.found) > 0
                                  THEN Append(found, l) ELSE found)

\* The loop of FilteredVideoSourceList.filter_sources.
RECURSIVE filter_sources(_, _, _)
filter_sources(children, segs, video_filters) ==
    IF children = <<>>
    THEN [segments |-> segs, error |-> "none"]
    ELSE IF Head(children).kind = "list"
    THEN [segments |-> segs, error |-> "AttributeError"]
    ELSE LET l == Head(children).leaves[1]
         IN  filter_sources(Tail(children),
                            [segs EXCEPT ![l] = filter_segments(@, video_filters)],
                            video_filters)

\* sum(weights)
RECURSIVE sum(_)
sum(ws) == IF ws = <<>> THEN 0 ELSE Head(ws) + sum(Tail(ws))

\* weights = [source.weight for source in sources]
weights(sources) == [k \in 1..Len(sources) |-> weight[sources[k]]]

\* Weights divided by the sum of the weights of all sources of the tree.
normalized_weights_all_sources(sources) ==
    [k \in 1..Len(sources) |->
        <<weights(sources)[k], sum(weights(LeavesOf(tree)))>>]

\* normalized_weights = [weight / weight_sum for weight in weights], each
\* quotient as the pair <<numerator, denominator>>.
normalized_weights(sources) ==
    LET weight_sum == sum(weights(sources))
    IN  [k \in 1..Len(sources) |-> <<weights(sources)[k], weight_sum>>]

\* The buckets of a source in the order of its segments dict, for a
\* durations list given in ascending order.
RECURSIVE BucketOrder(_)
BucketOrder(ds) ==
    IF ds = {}
    THEN <<>>
    ELSE LET d == CHOOSE x \in ds : \A y \in ds : x <= y
         IN  <<d>> \o BucketOrder(ds \ {d})

\* segment.segment for each segment of a list, in order.
ClipsOf(bucket) == [i \in 1..Len(bucket) |-> Clip(bucket[i])]

\* get_rejected_segments that keeps every segment not known to have passed.
RECURSIVE get_rejected_segments_not_passed(_, _)
get_rejected_segments_not_passed(segs, ds) ==
    IF ds = <<>>
    THEN <<>>
    ELSE ClipsOf(SelectSeq(segs[Head(ds)], LAMBDA s : s.rejected # "False"))
         \o get_rejected_segments_not_passed(segs, Tail(ds))

\* FilteredVideoSource.get_rejected_segments over the buckets ds:
\* `if segment.rejected` holds for True and for neither None nor False.
RECURSIVE get_rejected_segments(_, _)
get_rejected_segments(segs, ds) ==
    IF ds = <<>>
    THEN <<>>
    ELSE ClipsOf(SelectSeq(segs[Head(ds)], LAMBDA s : s.rejected = "True"))
         \o get_rejected_segments(segs, Tail(ds))

\* FilteredVideoSourceList.get_rejected_segments: the loop over the
\* children; a child that is a FilteredVideoSourceList runs the same loop
\* over its own children.
RECURSIVE list_get_rejected_segments(_, _)
list_get_rejected_segments(children, segs) ==
    IF children = <<>>
    THEN <<>>
    ELSE LET source == Head(children)
         IN  (IF source.kind = "list"
              THEN list_get_rejected_segments(
                       [k \in 1..Len(source.leaves) |-> Source(source.leaves[k])],
                       segs)
              ELSE get_rejected_segments(segs[source.leaves[1]],
                                         BucketOrder(DOMAIN segs[source.leaves[1]])))
             \o list_get_rejected_segments(Tail(children), segs)

\* ------------------------------------------------------------ the calls
\* The trees a collection is built as: one source, two sources, or a source
\* and a nested list holding the second source.
Trees == { <<Source(1)>>, <<Source(1), Source(2)>>, <<Source(1), SourceList(<<2>>)>> }

\* The detector's input: a file shows text in its first tick or nowhere.
TextSets == SUBSET {0}

\* The number of FilteredVideoSegment objects of a source.
RECURSIVE CountSegments(_, _)
CountSegments(segs, ds) ==
    IF ds = {}
    THEN 0
    ELSE LET d == CHOOSE x \in ds : TRUE
         IN  Len(segs[d]) + CountSegments(segs, ds \ {d})

\* No call is under way on a constructor or a clip.
NoCall == [op |-> "none"]

\* The collection after construction, its weights apart.
Build ==
    /\ tree \in Trees
    /\ file \in { f \in [Leaves -> Files] : f[1] = "a" }
    /\ length \in [Files -> 1..MaxLen]
    /\ text \in [Files -> TextSets]
    /\ \A f \in Files :
          (\A l \in Leaves : file[l] # f) => length[f] = 1 /\ text[f] = {}
    /\ \A l \in Leaves :
          (\A k \in 1..Len(LeavesOf(tree)) : LeavesOf(tree)[k] # l)
            => file[l] = "b" /\ length["b"] = 1 /\ text["b"] = {}
    /\ filters \in ConfiguredFilterLists
    /\ \E durations \in (SUBSET (1..MaxDur)) \ {{}} :
          segments = [l \in Leaves |->
                        FilteredVideoSource(file[l], length[file[l]], durations)]
    /\ CountSegments(segments[1], DOMAIN segments[1])
         + CountSegments(segments[2], DOMAIN segments[2]) <= MaxSegments
    /\ used = {}
    /\ NoUI
    /\ called = NoCall
    /\ returned = NoCall

\* Every source has the default weight.
Init ==
    /\ Build
    /\ weight = [l \in Leaves |-> 1]

\* Two sources of different files that show no text, with any weights.
InitWeights ==
    /\ Build
    /\ Len(tree) = 2
    /\ file[2] = "b"
    /\ \A f \in Files : text[f] = {}
    /\ weight \in [Leaves -> 1..MaxWeight]

Frame == UNCHANGED <<UI, tree, file, length, text, filters, weight, called, returned>>

\* source.filter_segments(filters)
FilterSegments(l, fl) ==
    /\ segments' = [segments EXCEPT ![l] = filter_segments(@, fl)]
    /\ UNCHANGED used
    /\ Frame

\* collection.filter_sources()
FilterSources ==
    LET r == filter_sources(tree, segments, filters)
    IN  /\ segments' = r.segments
        /\ UNCHANGED used
        /\ Frame

\* source.get_filtered_segments(duration, filters)
GetFilteredSegments(l, duration, fl) ==
    /\ segments' = [segments EXCEPT ![l] =
                      get_filtered_segments(@, duration, fl).segs]
    /\ UNCHANGED used
    /\ Frame

\* source.sample(duration, filters) where choice(segments) draws the i-th
\* segment of the bucket.
SourceSampleSelect(l, duration, fl, i) ==
    LET r == get_filtered_segments(segments[l], duration, fl)
    IN  /\ i \in r.found
        /\ segments' = [segments EXCEPT ![l] = sample_segment(r.segs, duration, i)]
        /\ used' = used \cup {Clip(r.segs[duration][i])}
        /\ Frame

\* source.sample(duration, filters) with no candidate: choice raises
\* ValueError on the empty list.
SourceSampleEmpty(l, duration, fl) ==
    LET r == get_filtered_segments(segments[l], duration, fl)
    IN  /\ r.found = {}
        /\ segments' = [segments EXCEPT ![l] = r.segs]
        /\ UNCHANGED used
        /\ Frame

\* collection.get_filtered_sources(duration, filters)
GetFilteredSources(duration, fl) ==
    LET r == get_filtered_sources(tree, segments, duration, fl, <<>>)
    IN  /\ segments' = r.segments
        /\ UNCHANGED used
        /\ Frame

\* collection.sample(duration, filters) where get_filtered_sources raises.
SampleError(duration, fl) ==
    LET r == get_filtered_sources(tree, segments, duration, fl, <<>>)
    IN  /\ r.error # "none"
        /\ segments' = r.segments
        /\ UNCHANGED used
        /\ Frame

\* collection.sample(duration, filters) where no source is left.
SampleNotFound(duration, fl) ==
    LET r == get_filtered_sources(tree, segments, duration, fl, <<>>)
    IN  /\ r.error = "none"
        /\ Len(r.sources) = 0
        /\ segments' = r.segments
        /\ UNCHANGED used
        /\ Frame

\* collection.sample(duration, filters) where choice(sources, p) draws leaf l
\* and the source's choice(segments) draws the i-th segment of its bucket.
SampleSelect(duration, fl, l, i) ==
    LET r == get_filtered_sources(tree, segments, duration, fl, <<>>)
        s == get_filtered_segments(r.segments[l], duration, fl)
    IN  /\ r.error = "none"
        /\ \E k \in 1..Len(r.sources) :
              r.sources[k] = l /\ normalized_weights(r.sources)[k][1] > 0
        /\ i \in s.found
        /\ segments' = [r.segments EXCEPT ![l] = sample_segment(s.segs, duration, i)]
        /\ used' = used \cup {Clip(s.segs[duration][i])}
        /\ Frame

\* FilteredVideoSourceList.sample(duration) with filters left at None:
\* get_filtered_sources puts self.filters in place of None, but sample
\* hands the None it was given to selected_source.sample, whose
\* get_filtered_segments calls passes_filters(None) on the first segment
\* of the bucket: `for video_filter in None` raises TypeError before
\* anything is written.
sample_without_filters(children, segs, duration) ==
    LET r == get_filtered_sources(children, segs, duration, filters, <<>>)
    IN  IF r.error # "none"
        THEN [segments |-> r.segments, error |-> r.error]
        ELSE IF Len(r.sources) = 0
        THEN [segments |-> r.segments, error |-> "SegmentNotFoundError"]
        ELSE [segments |-> r.segments, error |-> "TypeError"]

\* collection.sample(duration)
SampleWithoutFilters(duration) ==
    LET r == sample_without_filters(tree, segments, duration)
    IN  /\ segments' = r.segments
        /\ UNCHANGED used
        /\ Frame

Next ==
    \/ \E d \in 1..MaxDur : SampleWithoutFilters(d)
    \/ \E d \in 1..MaxDur, fl \in FilterLists : SampleError(d, fl)
    \/ \E d \in 1..MaxDur, fl \in FilterLists : SampleNotFound(d, fl)
    \/ \E d \in 1..MaxDur, fl \in FilterLists, l \in Leaves, i \in 1..MaxLen :
          SampleSelect(d, fl, l, i)
    \/ \E d \in 1..MaxDur, fl \in FilterLists : GetFilteredSources(d, fl)
    \/ FilterSources
    \/ \E l \in Leaves, d \in 1..MaxDur, fl \in FilterLists, i \in 1..MaxLen :
          SourceSampleSelect(l, d, fl, i)
    \/ \E l \in Leaves, d \in 1..MaxDur, fl \in FilterLists :
          SourceSampleEmpty(l, d, fl)
    \/ \E l \in Leaves, d \in 1..MaxDur, fl \in FilterLists :
          GetFilteredSegments(l, d, fl)
    \/ \E l \in Leaves, fl \in FilterLists : FilterSegments(l, fl)

Spec == Init /\ [][Next]_vars

\* The same calls on collections whose sources have any weights.
SpecWeights == InitWeights /\ [][Next]_vars

\* ------------------------------------ text detection is not available
\* filters.DEFAULT_VIDEO_FILTERS, for the filters of the model.
DEFAULT_VIDEO_FILTERS == <<"not_is_repeat", "not_has_text">>

\* The default filters after "Remove unavailable filters": without text
\* detection not_has_text is taken out of the list.
AvailableDefaultFilters ==
    SelectSeq(DEFAULT_VIDEO_FILTERS, LAMBDA n : n # "not_has_text")

\* The filter list names a filter whose predicate needs text detection.
NamesTextFilter(fl) == \E k \in 1..Len(fl) : Underlying(fl[k]) = "has_text"

\* The filter lists whose predicates can all be evaluated.
AvailableFilterLists == { fl \in FilterLists : ~NamesTextFilter(fl) }

\* A collection built where text detection is not available.
InitNoText ==
    /\ tree \in Trees
    /\ file \in { f \in [Leaves -> Files] : f[1] = "a" }
    /\ length \in [Files -> 1..MaxLen]
    /\ text = [f \in Files |-> {}]
    /\ \A f \in Files : (\A l \in Leaves : file[l] # f) => length[f] = 1
    /\ \A l \in Leaves : ~InTree(l) => file[l] = "b" /\ length["b"] = 1
    /\ filters = AvailableDefaultFilters
    /\ weight = [l \in Leaves |-> 1]
    /\ \E durations \in (SUBSET (1..MaxDur)) \ {{}} :
          segments = [l \in Leaves |->
                        FilteredVideoSource(file[l], length[file[l]], durations)]
    /\ CountSegments(segments[1], DOMAIN segments[1])
         + CountSegments(segments[2], DOMAIN segments[2]) <= MaxSegments
    /\ used = {}
    /\ NoUI
    /\ called = NoCall
    /\ returned = NoCall

\* The calls of Next, those that would evaluate has_text apart: without
\* text detection the predicate raises in the detector before a result is
\* stored.  Any filter list can still be named in a candidates or sample
\* call, which reads cached results only.
NextNoText ==
    \/ \E d \in 1..MaxDur, fl \in FilterLists : SampleError(d, fl)
    \/ \E d \in 1..MaxDur, fl \in FilterLists : SampleNotFound(d, fl)
    \/ \E d \in 1..MaxDur, fl \in FilterLists, l \in Leaves, i \in 1..MaxLen :
          SampleSelect(d, fl, l, i)
    \/ \E d \in 1..MaxDur, fl \in FilterLists : GetFilteredSources(d, fl)
    \/ FilterSources
    \/ \E l \in Leaves, d \in 1..MaxDur, fl \in FilterLists, i \in 1..MaxLen :
          SourceSampleSelect(l, d, fl, i)
    \/ \E l \in Leaves, d \in 1..MaxDur, fl \in FilterLists :
          SourceSampleEmpty(l, d, fl)
    \/ \E l \in Leaves, d \in 1..MaxDur, fl \in FilterLists :
          GetFilteredSegments(l, d, fl)
    \/ \E l \in Leaves, fl \in AvailableFilterLists : FilterSegments(l, fl)

SpecNoText == InitNoText /\ [][NextNoText]_vars

\* ------------------------------------------- construction from paths
\* The longest directory listing, glob match list and explicit list.
MaxEntries == 2

\* The sequences over S of length at most n.
SeqsUpTo(S, n) == UNION { [1..k -> S] : k \in 0..n }

\* A path string by what the file system holds for it, or an object
\* already built.  A directory lists its files; a glob lists its matches.
Entry(kind, entries) == [kind |-> kind, entries |-> entries]

\* A path that is a regular file, and one that does not exist when the
\* source is built.
FilePaths == { Entry("file", <<>>), Entry("missing", <<>>) }

DirectoryPaths == { Entry("directory", e) : e \in SeqsUpTo(FilePaths, MaxEntries) }

GlobPaths ==
    { Entry("glob", m) : m \in SeqsUpTo(FilePaths \cup DirectoryPaths, MaxEntries) }

Paths == FilePaths \cup DirectoryPaths \cup GlobPaths

\* A method returning a list of sources, and a method raising.
Ok(sources) == [error |-> "none", sources |-> sources]
Raise(error) == [error |-> error, sources |-> <<>>]

\* os.path.exists(file) and os.path.isfile(file)
FileExists(path) == path.kind = "file"

\* FilteredVideoSource.__init__ up to its raise, as the source it builds.
NewFilteredVideoSource(path) ==
    IF FileExists(path)
    THEN Ok(<<Entry("FilteredVideoSource", <<>>)>>)
    ELSE Raise("FileNotFoundError")

\* The directory loop without its try / except.
RECURSIVE get_sources_from_directory_uncaught(_)
get_sources_from_directory_uncaught(files) ==
    IF files = <<>>
    THEN Ok(<<>>)
    ELSE LET source == NewFilteredVideoSource(Head(files))
             rest == get_sources_from_directory_uncaught(Tail(files))
         IN  IF source.error # "none" THEN source
             ELSE IF rest.error # "none" THEN rest
             ELSE Ok(source.sources \o rest.sources)

\* FilteredVideoSourceList._get_sources_from_directory: a file whose source
\* raises IOError (FileNotFoundError is one) is skipped.
RECURSIVE get_sources_from_directory(_)
get_sources_from_directory(files) ==
    IF files = <<>>
    THEN Ok(<<>>)
    ELSE LET source == NewFilteredVideoSource(Head(files))
             rest == get_sources_from_directory(Tail(files))
         IN  IF source.error # "none"
             THEN rest
             ELSE Ok(source.sources \o rest.sources)

\* VideoSourceList(sources) for a list of FilteredVideoSource objects: its
\* _get_sources_from_list takes strings, Source, VideoSourceList and list
\* elements and raises ParameterError for anything else.
VideoSourceList(sources) ==
    IF sources = <<>>
    THEN Ok(<<Entry("VideoSourceList", <<>>)>>)
    ELSE Raise("ParameterError")

\* FilteredVideoSourceList._get_sources_from_list
RECURSIVE get_sources_from_list(_)
\* FilteredVideoSourceList._get_sources_from_path
RECURSIVE get_sources_from_path(_)
\* FilteredVideoSourceList._get_sources_from_glob_path
RECURSIVE get_sources_from_glob_path(_)

get_sources_from_list(sources_list) ==
    IF sources_list = <<>>
    THEN Ok(<<>>)
    ELSE LET source == Head(sources_list)
             first ==
                 IF source.kind = "file"
                 THEN get_sources_from_path(source)
                 ELSE IF source.kind \in {"missing", "directory", "glob"}
                 THEN LET inner == get_sources_from_path(source)
                      IN  IF inner.error # "none"
                          THEN inner
                          ELSE VideoSourceList(inner.sources)
                 ELSE Raise("ParameterError")
         IN  IF first.error # "none"
             THEN first
             ELSE LET rest == get_sources_from_list(Tail(sources_list))
                  IN  IF rest.error # "none"
                      THEN rest
                      ELSE Ok(first.sources \o rest.sources)

get_sources_from_path(path) ==
    LET sources ==
            IF path.kind = "glob"
            THEN get_sources_from_glob_path(path.entries)
            ELSE IF path.kind = "directory"
            THEN get_sources_from_directory(path.entries)
            ELSE NewFilteredVideoSource(path)
    IN  IF sources.error = "none" /\ Len(sources.sources) = 0
        THEN Raise("IOError")
        ELSE sources

get_sources_from_glob_path(paths) ==
    IF paths = <<>>
    THEN Ok(<<>>)
    ELSE LET path_sources == get_sources_from_path(Head(paths))
             first ==
                 IF path_sources.error # "none"
                 THEN path_sources
                 ELSE IF Head(paths).kind = "directory"
                 THEN LET nested == get_sources_from_list(path_sources.sources)
                      IN  IF nested.error # "none"
                          THEN nested
                          ELSE Ok(<<Entry("FilteredVideoSourceList", nested.sources)>>)
                 ELSE path_sources
         IN  IF first.error # "none"
             THEN first
             ELSE LET rest == get_sources_from_glob_path(Tail(paths))
                  IN  IF rest.error # "none"
                      THEN rest
                      ELSE Ok(first.sources \o rest.sources)

\* FilteredVideoSourceList.__init__: the sources of the new collection.  A
\* sources argument that is a string is held as a list of that one path.
FilteredVideoSourceList(form, sources) ==
    IF form = "str"
    THEN get_sources_from_path(sources[1])
    ELSE get_sources_from_list(sources)

\* The arguments FilteredVideoSourceList is called with: one path, or a
\* list of file and directory paths.
ConstructorCalls ==
    { [op |-> "FilteredVideoSourceList", form |-> "str", sources |-> <<p>>] :
        p \in Paths }
    \cup
    { [op |-> "FilteredVideoSourceList", form |-> "list", sources |-> ps] :
        ps \in SeqsUpTo(FilePaths \cup DirectoryPaths, MaxEntries) }

\* --------------------------------------------------------- VideoSegment
\* VideoSegment.__init__: the clip of a whole file, with its reader and
\* its audio opened on the file.
VideoSegment(f) ==
    [filename |-> f, source_start_time |-> 0, duration |-> length[f],
     reader |-> <<f>>, audio |-> <<f, 0, length[f]>>]

\* VideoSegment.source_end_time
source_end_time(self) == self.source_start_time + self.duration

\* subclip that sets source_start_time to the start time it is given.
subclip_absolute(self, start_time, end_time) ==
    LET start == IF start_time < 0 THEN self.duration + start_time ELSE start_time
    IN  IF start > self.duration
        THEN [error |-> "ValueError", clip |-> self]
        ELSE LET end == IF end_time = None
                        THEN self.duration
                        ELSE IF end_time[1] < 0
                        THEN self.duration + end_time[1]
                        ELSE end_time[1]
                 offset == IF start < 0 THEN self.duration + start ELSE start
             IN  [error |-> "none",
                  clip |-> [self EXCEPT !.duration = end - start,
                                        !.source_start_time = offset]]

\* VideoSegment.subclip: the new clip is a copy of self with its duration
\* set and its source_start_time moved; it keeps the reader and the audio.
subclip(self, start_time, end_time) ==
    LET start == IF start_time < 0 THEN self.duration + start_time ELSE start_time
    IN  IF start > self.duration
        THEN [error |-> "ValueError", clip |-> self]
        ELSE LET end == IF end_time = None
                        THEN self.duration
                        ELSE IF end_time[1] < 0
                        THEN self.duration + end_time[1]
                        ELSE end_time[1]
                 offset == IF start < 0 THEN self.duration + start ELSE start
             IN  [error |-> "none",
                  clip |-> [self EXCEPT !.duration = end - start,
                                        !.source_start_time = @ + offset]]

\* FilteredVideoSegment.segment
segment(seg) == subclip(VideoSegment(seg.file), seg.start, <<seg.end>>)

\* VideoSegment.__getstate__
getstate(self) == [self EXCEPT !.reader = None, !.audio = None]

\* __setstate__ that opens the audio from the start of the file.
setstate_from_zero(newstate) ==
    [newstate EXCEPT
       !.reader = <<newstate.filename>>,
       !.audio = <<newstate.filename, 0, newstate.duration>>]

\* VideoSegment.__setstate__
setstate(newstate) ==
    [newstate EXCEPT
       !.reader = <<newstate.filename>>,
       !.audio = <<newstate.filename, newstate.source_start_time,
                   newstate.source_start_time + newstate.duration>>]

\* MusicVideo.save: the persisted states of the segments of a music video.
save(segs) == [k \in 1..Len(segs) |-> getstate(segs[k])]

\* MusicVideo.load: the segments restored from their persisted states.
load(states) == [k \in 1..Len(states) |-> setstate(states[k])]

\* The start and end times subclip is called with.
StartTimes == (0 - 1)..MaxLen
EndTimes == {None} \cup { <<e>> : e \in (0 - 1)..MaxLen }

\* subclip(start_time, end_time) called on the clip of a whole file.
SubclipCalls ==
    { [op |-> "subclip", clip |-> VideoSegment(f),
       start_time |-> s, end_time |-> e, outer |-> <<>>] :
        f \in Files, s \in StartTimes, e \in EndTimes }

\* FilteredVideoSegment.segment called on a segment FilteredVideoSource
\* builds for a file.
SegmentCalls ==
    UNION { { [op |-> "segment", seg |-> Bucket(f, length[f], d, 0)[i]] :
                i \in 1..Len(Bucket(f, length[f], d, 0)) } :
            f \in Files, d \in 1..MaxDur }

\* ---------------------------------------------------------- VideoSource
\* VideoSource.sample(duration): every result the random draws allow.  With
\* time boundaries and none long enough, choice(0, p=[]) raises ValueError.
\* TimeRange is the pair of a start and an end, time_ranges are the
\* boundaries that are long enough, and random.uniform(a, b) draws a value
\* between a and b, whichever is the larger.
VideoSource_sample(self, duration) ==
    LET TimeRange(start, end) == [start |-> start, end |-> end]
        time_ranges ==
            SelectSeq([i \in 1..Len(self.time_boundaries) |->
                          TimeRange(self.time_boundaries[i][1],
                                    self.time_boundaries[i][2])],
                      LAMBDA time_range :
                          time_range.end - time_range.start >= duration)
        uniform(a, b) == IF a <= b THEN a..b ELSE b..a
        ranges ==
            IF self.time_boundaries # <<>>
            THEN time_ranges
            ELSE <<TimeRange(0, self.segment.duration)>>
    IN  IF ranges = <<>>
        THEN { [error |-> "ValueError", clip |-> self.segment] }
        ELSE UNION { { subclip(self.segment, start_time, <<start_time + duration>>) :
                         start_time \in uniform(ranges[k].start,
                                                ranges[k].end - duration) } :
                     k \in 1..Len(ranges) }

\* sample(duration) called on a source of file a.  VideoSource.__init__
\* keeps the clip of the whole file and the time boundaries it is built
\* with, an empty list when none are given.
VideoSourceSampleCalls ==
    LET TimeBoundaries ==
            SeqsUpTo({ b \in (0..MaxLen) \X (0..MaxLen) : b[1] <= b[2] },
                     MaxEntries)
    IN  { [op |-> "VideoSource.sample",
           self |-> [segment |-> VideoSegment("a"), time_boundaries |-> tb],
           duration |-> d] :
            tb \in TimeBoundaries, d \in 1..MaxDur }

\* source.sample(duration)
VideoSourceSample ==
    /\ called.op = "VideoSource.sample"
    /\ returned = NoCall
    /\ \E r \in VideoSource_sample(called.self, called.duration) :
          returned' = [op |-> called.op, value |-> r]
    /\ UNCHANGED <<UI, tree, file, length, text, filters, weight, segments, used, called>>

\* A collection of one source, built for a duration no file is longer
\* than and so without segments, on which no method runs.
Idle ==
    /\ tree = <<Source(1)>>
    /\ file = [l \in Leaves |-> IF l = 1 THEN "a" ELSE "b"]
    /\ text = [f \in Files |-> {}]
    /\ filters \in ConfiguredFilterLists
    /\ weight = [l \in Leaves |-> 1]
    /\ segments = [l \in Leaves |->
                     FilteredVideoSource(file[l], length[file[l]], {MaxLen})]
    /\ used = {}

\* The calls of constructors and clip methods, each with its arguments.
InitFunctions ==
    /\ length \in { [f \in Files |-> n] : n \in 1..MaxLen }
    /\ Idle
    /\ \/ called \in ConstructorCalls /\ length["a"] = 1
       \/ called \in SubclipCalls
       \/ called \in SegmentCalls
       \/ called \in VideoSourceSampleCalls
    /\ returned = NoCall
    /\ NoUI

\* FilteredVideoSourceList(sources, durations, filters)
Construct ==
    /\ called.op = "FilteredVideoSourceList"
    /\ returned = NoCall
    /\ returned' = [op |-> called.op,
                    value |-> FilteredVideoSourceList(called.form, called.sources)]
    /\ UNCHANGED <<UI, tree, file, length, text, filters, weight, segments, used, called>>

\* clip.subclip(start_time, end_time)
Subclip ==
    /\ called.op = "subclip"
    /\ returned = NoCall
    /\ returned' = [op |-> called.op,
                    value |-> subclip(called.clip, called.start_time,
                                      called.end_time)]
    /\ UNCHANGED <<UI, tree, file, length, text, filters, weight, segments, used, called>>

\* subclip called on the clip a first subclip call returned.
SubclipAgain(start_time, end_time) ==
    /\ returned.op = "subclip"
    /\ returned.value.error = "none"
    /\ called.outer = <<>>
    /\ called' = [op |-> "subclip", clip |-> returned.value.clip,
                  start_time |-> start_time, end_time |-> end_time,
                  outer |-> <<called>>]
    /\ returned' = NoCall
    /\ UNCHANGED <<UI, tree, file, length, text, filters, weight, segments, used>>

\* filtered_segment.segment
Segment ==
    /\ called.op = "segment"
    /\ returned = NoCall
    /\ returned' = [op |-> called.op, value |-> segment(called.seg)]
    /\ UNCHANGED <<UI, tree, file, length, text, filters, weight, segments, used, called>>

\* A clip returned by subclip is pickled and restored.
Pickle ==
    /\ returned.op = "subclip"
    /\ returned.value.error = "none"
    /\ called' = [op |-> "pickle", clip |-> returned.value.clip]
    /\ returned' = [op |-> "pickle",
                    state |-> getstate(returned.value.clip),
                    value |-> setstate(getstate(returned.value.clip))]
    /\ UNCHANGED <<UI, tree, file, length, text, filters, weight, segments, used>>

\* A music video of the first n of a clip and its subclip is saved and
\* loaded.
SaveLoad(n) ==
    /\ returned.op = "subclip"
    /\ returned.value.error = "none"
    /\ LET segs == [k \in 1..n |->
                      IF k = 1 THEN returned.value.clip ELSE called.clip]
       IN  /\ called' = [op |-> "save", segments |-> segs]
           /\ returned' = [op |-> "save", state |-> save(segs),
                           value |-> load(save(segs))]
    /\ UNCHANGED <<UI, tree, file, length, text, filters, weight, segments, used>>

NextFunctions ==
    \/ Construct
    \/ Subclip
    \/ \E s \in StartTimes, e \in EndTimes : SubclipAgain(s, e)
    \/ Segment
    \/ Pickle
    \/ \E n \in 0..MaxEntries : SaveLoad(n)
    \/ VideoSourceSample

SpecFunctions == InitFunctions /\ [][NextFunctions]_vars

\* -------------------------------------------- interleaved sample calls
\* Two callers of sample on one source.  The code takes no lock: a caller
\* can be between the candidates step and the cascade of
\* FilteredVideoSource.sample while the other runs.
Threads == {1, 2}

\* A caller that has not called yet.
NotCalled ==
    [pc |-> "start", duration |-> 0, filters |-> <<>>, index |-> 0, after |-> {}]

\* One source, and two callers about to call sample on it.
InitThreads ==
    /\ tree = <<Source(1)>>
    /\ file = [l \in Leaves |-> IF l = 1 THEN "a" ELSE "b"]
    /\ length \in { len \in [Files -> 1..MaxLen] : len["b"] = 1 }
    /\ text = [f \in Files |-> {}]
    /\ filters \in ConfiguredFilterLists
    /\ weight = [l \in Leaves |-> 1]
    /\ \E durations \in (SUBSET (1..MaxDur)) \ {{}} :
          segments = [l \in Leaves |->
                        FilteredVideoSource(file[l], length[file[l]], durations)]
    /\ CountSegments(segments[1], DOMAIN segments[1])
         + CountSegments(segments[2], DOMAIN segments[2]) <= MaxSegments
    /\ used = {}
    /\ NoUI
    /\ called = [op |-> "sample", calls |-> [t \in Threads |-> NotCalled]]
    /\ returned = [op |-> "sample", values |-> [t \in Threads |-> <<>>]]

\* The callers that have their segment back.
Done == { t \in Threads : called.calls[t].pc = "done" }

\* The first two statements of FilteredVideoSource.sample run by caller t:
\* get_filtered_segments, then choice(segments) drawing the i-th segment.
ThreadCandidates(t, duration, fl, i) ==
    LET r == get_filtered_segments(segments[1], duration, fl)
    IN  /\ called.calls[t].pc = "start"
        /\ i \in r.found
        /\ segments' = [segments EXCEPT ![1] = r.segs]
        /\ called' = [called EXCEPT !.calls[t] =
                        [pc |-> "chosen", duration |-> duration, filters |-> fl,
                         index |-> i, after |-> Done]]
        /\ UNCHANGED <<UI, tree, file, length, text, filters, weight, used, returned>>

\* The same statements when no segment is a candidate: choice raises.
ThreadEmpty(t, duration, fl) ==
    LET r == get_filtered_segments(segments[1], duration, fl)
    IN  /\ called.calls[t].pc = "start"
        /\ r.found = {}
        /\ segments' = [segments EXCEPT ![1] = r.segs]
        /\ called' = [called EXCEPT !.calls[t] =
                        [pc |-> "raised", duration |-> duration, filters |-> fl,
                         index |-> 0, after |-> Done]]
        /\ UNCHANGED <<UI, tree, file, length, text, filters, weight, used, returned>>

\* The last statements of FilteredVideoSource.sample run by caller t:
\* sample_segment on the segment it chose, and the return of its clip.
ThreadCascade(t) ==
    LET c == called.calls[t]
    IN  /\ c.pc = "chosen"
        /\ segments' = [segments EXCEPT ![1] = sample_segment(@, c.duration, c.index)]
        /\ used' = used \cup {Clip(segments[1][c.duration][c.index])}
        /\ returned' = [returned EXCEPT !.values[t] =
                          <<Clip(segments[1][c.duration][c.index])>>]
        /\ called' = [called EXCEPT !.calls[t].pc = "done"]
        /\ UNCHANGED <<UI, tree, file, length, text, filters, weight>>

NextThreads ==
    \/ \E t \in Threads, d \in 1..MaxDur, fl \in FilterLists, i \in 1..MaxLen :
          ThreadCandidates(t, d, fl, i)
    \/ \E t \in Threads, d \in 1..MaxDur, fl \in FilterLists : ThreadEmpty(t, d, fl)
    \/ \E t \in Threads : ThreadCascade(t)

SpecThreads == InitThreads /\ [][NextThreads]_vars

\* ------------------------------- sampling with not_is_repeat throughout
\* The filter lists that name not_is_repeat.
RepeatFilterLists ==
    { fl \in FilterLists : \E k \in 1..Len(fl) : fl[k] = "not_is_repeat" }

\* A collection after construction and a caller of collection.sample who
\* keeps, for every duration, the number of calls that returned a segment
\* and whether a call has raised SegmentNotFoundError.
InitRepeats ==
    /\ tree \in Trees
    /\ file \in { f \in [Leaves -> Files] : f[1] = "a" }
    /\ length \in [Files -> 1..MaxLen]
    /\ text \in [Files -> TextSets]
    /\ \A f \in Files :
          (\A l \in Leaves : file[l] # f) => length[f] = 1 /\ text[f] = {}
    /\ \A l \in Leaves :
          ~InTree(l) => file[l] = "b" /\ length["b"] = 1 /\ text["b"] = {}
    /\ filters \in ConfiguredFilterLists
    /\ weight = [l \in Leaves |-> 1]
    /\ \E durations \in (SUBSET (1..MaxDur)) \ {{}} :
          segments = [l \in Leaves |->
                        FilteredVideoSource(file[l], length[file[l]], durations)]
    /\ CountSegments(segments[1], DOMAIN segments[1])
         + CountSegments(segments[2], DOMAIN segments[2]) <= MaxSegments
    /\ used = {}
    /\ NoUI
    /\ called = [op |-> "sample", not_found |-> {}]
    /\ returned = [op |-> "sample", count |-> [d \in 1..MaxDur |-> 0]]

\* collection.sample(duration, filters) returning a segment of leaf l: the
\* caller counts it.
RepeatSampleSelect(duration, fl, l, i) ==
    LET r == get_filtered_sources(tree, segments, duration, fl, <<>>)
        s == get_filtered_segments(r.segments[l], duration, fl)
    IN  /\ returned.count[duration] <= MaxSegments
        /\ r.error = "none"
        /\ \E k \in 1..Len(r.sources) :
              r.sources[k] = l /\ normalized_weights(r.sources)[k][1] > 0
        /\ i \in s.found
        /\ segments' = [r.segments EXCEPT ![l] = sample_segment(s.segs, duration, i)]
        /\ used' = used \cup {Clip(s.segs[duration][i])}
        /\ returned' = [returned EXCEPT !.count[duration] = @ + 1]
        /\ UNCHANGED <<UI, tree, file, length, text, filters, weight, called>>

\* collection.sample(duration, filters) raising SegmentNotFoundError: the
\* caller notes the duration.
RepeatSampleNotFound(duration, fl) ==
    LET r == get_filtered_sources(tree, segments, duration, fl, <<>>)
    IN  /\ r.error = "none"
        /\ Len(r.sources) = 0
        /\ segments' = r.segments
        /\ called' = [called EXCEPT !.not_found = @ \cup {duration}]
        /\ UNCHANGED <<UI, tree, file, length, text, filters, weight, used, returned>>

\* collection.sample(duration, filters) where get_filtered_sources raises.
RepeatSampleError(duration, fl) ==
    LET r == get_filtered_sources(tree, segments, duration, fl, <<>>)
    IN  /\ r.error # "none"
        /\ segments' = r.segments
        /\ UNCHANGED <<UI, tree, file, length, text, filters, weight, used,
                       called, returned>>

\* collection.filter_sources() between two sample calls.
RepeatFilterSources ==
    LET r == filter_sources(tree, segments, filters)
    IN  /\ segments' = r.segments
        /\ UNCHANGED <<UI, tree, file, length, text, filters, weight, used,
                       called, returned>>

NextRepeats ==
    \/ \E d \in 1..MaxDur, fl \in RepeatFilterLists, l \in Leaves, i \in 1..MaxLen :
          RepeatSampleSelect(d, fl, l, i)
    \/ \E d \in 1..MaxDur, fl \in RepeatFilterLists : RepeatSampleNotFound(d, fl)
    \/ \E d \in 1..MaxDur, fl \in RepeatFilterLists : RepeatSampleError(d, fl)
    \/ RepeatFilterSources

\* The caller keeps sampling every duration: a sample call that would
\* return a segment is not put off for ever.
SpecRepeats ==
    /\ InitRepeats
    /\ [][NextRepeats]_vars
    /\ \A d \in 1..MaxDur :
          WF_vars(\E fl \in RepeatFilterLists, l \in Leaves, i \in 1..MaxLen :
                     RepeatSampleSelect(d, fl, l, i))

\* --------------------------------------------------------------- web UI
\* The most beats the beat track of an uploaded audio holds.
MaxBeats == 12

\* BeatGroups.__init__(count=100)
DefaultCount == 100

\* The variables of the sampling engine, which the web UI leaves alone.
Engine ==
    <<tree, file, length, text, filters, weight, segments, used, called, returned>>

\* filter_states, the choices of the three filter radios.
filter_states == {"Include", "Off", "Exclude"}

\* The values the interval sliders are released at.
IntervalInputs == {0 - 1, 2}

min(a, b) == IF a <= b THEN a ELSE b

max(a, b) == IF a >= b THEN a ELSE b

\* int(count / 2): the quotient cut towards zero.
int_half(count) ==
    IF count < 0 THEN 0 - ((0 - count) \div 2) ELSE count \div 2

\* self.beats[k].location: the beat track places beat k at tick k.
location(k) == k

\* b[k] can be read for every k of ks, b being the value of self.beats:
\* it is a list and k indexes it, a negative k from its end.
Subscriptable(b, ks) ==
    /\ b # None
    /\ \A k \in ks : 0 - b[1] <= k /\ k < b[1]

\* The error of a subscript of self.beats that cannot be read.
SubscriptError(b) == IF b = None THEN "TypeError" ELSE "IndexError"

\* One entry of BeatGroups.slices.
Slice(start_index, end_index, start_time, end_time, interval) ==
    [start_index |-> start_index, end_index |-> end_index,
     start_time |-> start_time, end_time |-> end_time, interval |-> interval]

\* BeatGroups.generate_slices_from_count
generate_slices_from_count(count) ==
    LET c == count - 1
        midpoint == int_half(c)
    IN  <<Slice(0, midpoint, 0, midpoint, min(4, midpoint - 1)),
          Slice(midpoint + 1, c, midpoint + 1, c, min(4, c - midpoint))>>

\* BeatGroups.generate_slices_from_audio for an audio of n beats, which
\* it sets self.beats to: the slices, or the error of beats[midpoint].
generate_slices_from_audio(n) ==
    LET c == n - 1
        midpoint == int_half(c)
    IN  IF ~Subscriptable(<<n>>, {midpoint})
        THEN [error |-> SubscriptError(<<n>>), slices |-> <<>>]
        ELSE [error |-> "none",
              slices |->
                <<Slice(0, midpoint, 0, location(midpoint), min(4, midpoint - 1)),
                  Slice(midpoint + 1, c, location(midpoint), 0 - 1,
                        min(4, c - midpoint))>>]

\* build: the values the widgets of row i are rendered with (rows count
\* from 1 here, from 0 in the code).
chunk_start(s, i) == s[i].start_index

chunk_value(s, i) == s[i].end_index

\* gr.Button("Remove", interactive=(i != len(slices) - 1 and len(slices) > 2))
RemoveInteractive(s, i) == i # Len(s) /\ Len(s) > 2

\* The values the End Of Slice slider of row i can be released at: none
\* when it is not interactive.
SliderValues(s, i) ==
    LET chunk_end ==
            IF i = Len(s) THEN s[i].end_index ELSE s[i + 1].end_index - 2
    IN  IF chunk_value(s, i) # chunk_end
        THEN (chunk_start(s, i) + 2)..chunk_end
        ELSE {}

\* The values of all End Of Slice sliders as rendered.
Sliders(s) == [i \in 1..Len(s) |-> chunk_value(s, i)]

\* update_intervals
update_intervals(old_slices, new_intervals) ==
    [i \in 1..Len(new_intervals) |->
        [old_slices[i] EXCEPT !.interval = new_intervals[i]]]

\* The loop of split_slice over old_slices when two slider values are
\* given.
RECURSIVE split_loop(_, _)
split_loop(old_slices, slice_split) ==
    IF old_slices = <<>>
    THEN [error |-> "none", slices |-> <<>>]
    ELSE LET s == Head(old_slices)
             slice_start == slice_split[1] + 1
             slice_end == slice_split[2]
             s1_end == slice_start + ((slice_end - slice_start) \div 2)
             hit == s.end_index = slice_split[2]
             first ==
                 IF ~hit
                 THEN [error |-> "none", slices |-> <<s>>]
                 ELSE IF ~Subscriptable(beats, {slice_start, s1_end})
                 THEN [error |-> SubscriptError(beats), slices |-> <<>>]
                 ELSE IF slice_end # beats[1] - 1 /\ ~Subscriptable(beats, {slice_end})
                 THEN [error |-> SubscriptError(beats), slices |-> <<>>]
                 ELSE [error |-> "none",
                       slices |->
                         <<Slice(slice_start, s1_end, location(slice_start),
                                 location(s1_end),
                                 min(s.interval, s1_end - slice_start - 1)),
                           Slice(s1_end + 1, slice_end, location(s1_end),
                                 IF slice_end = beats[1] - 1
                                 THEN 0 - 1 ELSE location(slice_end),
                                 min(s.interval, slice_end - s1_end))>>]
         IN  IF first.error # "none"
             THEN first
             ELSE LET rest == split_loop(Tail(old_slices), slice_split)
                  IN  IF rest.error # "none"
                      THEN rest
                      ELSE [error |-> "none", slices |-> first.slices \o rest.slices]

\* split_slice: slice_split holds the value of the slider of the row, after
\* the value of the slider of the row before it when there is one.
split_slice(old_slices, slice_split) ==
    IF Len(slice_split) = 1
    THEN LET s == old_slices[1]
             s1_end == s.start_index + ((s.end_index - s.start_index) \div 2)
         IN  IF ~Subscriptable(beats, {s1_end, s.end_index})
             THEN [error |-> SubscriptError(beats), slices |-> <<>>]
             ELSE [error |-> "none",
                   slices |->
                     <<Slice(0, s1_end, 0, location(s1_end),
                             min(s.interval, s1_end - 1)),
                       Slice(s1_end + 1, s.end_index, location(s1_end),
                             location(s.end_index),
                             min(s.interval, s.end_index - s1_end))>>
                     \o Tail(old_slices)]
    ELSE split_loop(old_slices, slice_split)

\* The loop of remove_slice from position j on.  The slices have no key
\* 'end': s['end'] raises KeyError.
RECURSIVE remove_loop(_, _, _, _)
remove_loop(old_slices, slice_remove, j, skip) ==
    IF j > Len(old_slices)
    THEN [error |-> "none", slices |-> <<>>]
    ELSE LET s == old_slices[j]
         IN  IF "end" \notin DOMAIN s
             THEN [error |-> "KeyError", slices |-> <<>>]
             ELSE IF s["end"] = slice_remove
             THEN IF j + 1 > Len(old_slices)
                  THEN [error |-> "IndexError", slices |-> <<>>]
                  ELSE LET rest == remove_loop(old_slices, slice_remove, j + 1, TRUE)
                       IN  IF rest.error # "none"
                           THEN rest
                           ELSE [error |-> "none",
                                 slices |->
                                   <<Slice(s.start_index,
                                           old_slices[j + 1].end_index,
                                           s.start_time,
                                           old_slices[j + 1].end_time,
                                           max(s.interval,
                                               old_slices[j + 1].interval))>>
                                   \o rest.slices]
             ELSE LET rest == remove_loop(old_slices, slice_remove, j + 1, FALSE)
                  IN  IF rest.error # "none"
                      THEN rest
                      ELSE [error |-> "none",
                            slices |-> (IF skip THEN <<>> ELSE <<s>>) \o rest.slices]

\* remove_slice
remove_slice(old_slices, slice_remove) ==
    remove_loop(old_slices, slice_remove, 1, FALSE)

\* The loop of update_slices from row i on, slice_end being the end of the
\* row before.
RECURSIVE update_loop(_, _, _, _)
update_loop(old_slices, slice_ends, i, slice_end) ==
    IF i > Len(slice_ends)
    THEN [error |-> "none", slices |-> <<>>]
    ELSE LET slice_start == slice_end + 1
             new_end == slice_ends[i]
             read == (IF i = 1 THEN {} ELSE {slice_end})
                     \cup (IF i = Len(slice_ends) THEN {} ELSE {new_end})
         IN  IF ~Subscriptable(beats, read)
             THEN [error |-> SubscriptError(beats), slices |-> <<>>]
             ELSE LET rest == update_loop(old_slices, slice_ends, i + 1, new_end)
                  IN  IF rest.error # "none"
                      THEN rest
                      ELSE [error |-> "none",
                            slices |->
                              <<Slice(slice_start, new_end,
                                      IF i = 1 THEN 0 ELSE location(slice_end),
                                      IF i = Len(slice_ends)
                                      THEN 0 - 1 ELSE location(new_end),
                                      min(old_slices[i].interval,
                                          new_end - slice_start - 1))>>
                              \o rest.slices]

\* update_slices
update_slices(old_slices, slice_ends) ==
    update_loop(old_slices, slice_ends, 1, 0 - 1)

\* The filters list UI.generate builds from the settings.
generate_filters(s) ==
    (IF ~s.allow_repeats THEN <<"not_is_repeat">> ELSE <<>>)
    \o (IF s.has_low_contrast = "Included" THEN <<"has_low_contrast">>
        ELSE IF s.has_low_contrast = "Excluded" THEN <<"not_has_low_contrast">>
        ELSE <<>>)
    \o (IF s.has_cut = "Included" THEN <<"has_cut">>
        ELSE IF s.has_cut = "Excluded" THEN <<"not_has_cut">>
        ELSE <<>>)
    \o (IF s.has_text = "Included" THEN <<"has_text">>
        ELSE IF s.has_text = "Excluded" THEN <<"not_has_text">>
        ELSE <<>>)

\* The web UI after UI().launch() with the default settings and no audio:
\* the engine is not in use.
InitUI ==
    /\ length = [f \in Files |-> 1]
    /\ Idle
    /\ called = NoCall
    /\ returned = NoCall
    /\ slices = generate_slices_from_count(DefaultCount)
    /\ beats = None
    /\ settings = default_settings
    /\ generator = None

\* init_video_gen on the upload of an audio of n beats: a new generator,
\* and the slices generate_slices_from_audio returns; when it raises the
\* slices stay as they are.
InitVideoGen(n) ==
    /\ generator' = <<[video_filters |-> None]>>
    /\ beats' = <<n>>
    /\ LET r == generate_slices_from_audio(n)
       IN  slices' = IF r.error = "none" THEN r.slices ELSE slices
    /\ UNCHANGED <<Engine, settings>>

\* update_intervals on the release of the Beat Interval slider of row i
\* at v, a value between the slider's minimum and maximum.
UpdateIntervals(i, v) ==
    /\ i \in 1..Len(slices)
    /\ 0 - 10 <= v
    /\ v <= (chunk_value(slices, i) - chunk_start(slices, i)) - 1
    /\ slices' = update_intervals(
                     slices,
                     [k \in 1..Len(slices) |->
                         IF k = i THEN v ELSE slices[k].interval])
    /\ UNCHANGED <<Engine, beats, settings, generator>>

\* split_slice on a click of the Split button of row i, which is
\* interactive when chunk_value - chunk_start > 4.
SplitSlice(i) ==
    /\ i \in 1..Len(slices)
    /\ chunk_value(slices, i) - chunk_start(slices, i) > 4
    /\ LET r == split_slice(slices,
                            IF i = 1
                            THEN <<Sliders(slices)[1]>>
                            ELSE <<Sliders(slices)[i - 1], Sliders(slices)[i]>>)
       IN  slices' = IF r.error = "none" THEN r.slices ELSE slices
    /\ UNCHANGED <<Engine, beats, settings, generator>>

\* remove_slice on a click of the Remove button of row i.
RemoveSlice(i) ==
    /\ i \in 1..Len(slices)
    /\ RemoveInteractive(slices, i)
    /\ LET r == remove_slice(slices, Sliders(slices)[i])
       IN  slices' = IF r.error = "none" THEN r.slices ELSE slices
    /\ UNCHANGED <<Engine, beats, settings, generator>>

\* update_slices on the release of the End Of Slice slider of row i at v.
UpdateSlices(i, v) ==
    /\ i \in 1..Len(slices)
    /\ v \in SliderValues(slices, i)
    /\ LET r == update_slices(slices,
                              [k \in 1..Len(slices) |->
                                  IF k = i THEN v ELSE Sliders(slices)[k]])
       IN  slices' = IF r.error = "none" THEN r.slices ELSE slices
    /\ UNCHANGED <<Engine, beats, settings, generator>>

\* change_allow_repeats
ChangeAllowRepeats(allowed) ==
    /\ settings' = [settings EXCEPT !.allow_repeats = allowed]
    /\ UNCHANGED <<Engine, slices, beats, generator>>

\* change_filters
ChangeFilters(has_text_choice, cut, contrast) ==
    /\ settings' = [settings EXCEPT !.has_text = has_text_choice, !.has_cut = cut,
                                    !.has_low_contrast = contrast]
    /\ UNCHANGED <<Engine, slices, beats, generator>>

\* generate on a click of the Generate button, which an upload enables.
Generate ==
    /\ generator # None
    /\ generator' = <<[generator[1] EXCEPT
                         !.video_filters = <<generate_filters(settings)>>]>>
    /\ UNCHANGED <<Engine, slices, beats, settings>>

\* The beat groups of the web UI.
NextBeatGroups ==
    \/ \E n \in 1..MaxBeats : InitVideoGen(n)
    \/ \E i \in 1..MaxBeats, v \in IntervalInputs : UpdateIntervals(i, v)
    \/ \E i \in 1..MaxBeats : SplitSlice(i)
    \/ \E i \in 1..MaxBeats : RemoveSlice(i)
    \/ \E i \in 1..MaxBeats, v \in 0..MaxBeats : UpdateSlices(i, v)

SpecBeatGroups == InitUI /\ [][NextBeatGroups]_vars

\* The clip filters of the web UI.
NextClipFilters ==
    \/ InitVideoGen(MaxBeats)
    \/ \E allowed \in BOOLEAN : ChangeAllowRepeats(allowed)
    \/ \E t \in filter_states, c \in filter_states, l \in filter_states :
          ChangeFilters(t, c, l)
    \/ Generate

SpecClipFilters == InitUI /\ [][NextClipFilters]_vars

\* ------------------------------------------------------------ the claims
\* The identities of the FilteredVideoSegment objects of the collection.
Ids(segs) ==
    { id \in Leaves \X (1..MaxDur) \X (1..MaxLen) :
        /\ id[2] \in DOMAIN segs[id[1]]
        /\ id[3] \in 1..Len(segs[id[1]][id[2]]) }

Seg(segs, id) == segs[id[1]][id[2]][id[3]]

Names(fl) == { fl[k] : k \in 1..Len(fl) }

\* Every filter of the list has a cached result of True for the segment.
AllCachedTrue(seg, fl) ==
    \A n \in Names(fl) : n \in DOMAIN seg.filters /\ seg.filters[n]

\* The positions get_filtered_segments returns for a bucket in this state.
Candidates(l, d, fl) == get_filtered_segments(segments[l], d, fl).found

\* A step in which a sample call under the list fl returns the segment id:
\* source.sample on its leaf, or collection.sample drawing its leaf.
Returns(id, fl) ==
    /\ passes_filters(Seg(segments, id), fl).ok
    /\ used' = used \cup {Clip(Seg(segments, id))}
    /\ segments'[id[1]] =
         sample_segment(get_filtered_segments(segments[id[1]], id[2], fl).segs,
                        id[2], id[3])
    /\ \/ SourceSampleSelect(id[1], id[2], fl, id[3])
       \/ SampleSelect(id[2], fl, id[1], id[3])

\* C1: a segment returned by a sample call whose filter list contains
\* not_is_repeat overlaps (same file, intersecting range) no clip returned
\* by an earlier sample call.
C1_NoRepeatLeak ==
    [][\A id \in Ids(segments), fl \in FilterLists :
          ("not_is_repeat" \in Names(fl) /\ Returns(id, fl))
          => \A u \in used : ~overlaps_segment(Seg(segments, id), u)]_vars

FailsCached(seg, fl) ==
    \E n \in Names(fl) \ {"is_repeat"} :
        n \in DOMAIN seg.filters /\ ~seg.filters[n]

Rejected(segs, id) == Seg(segs, id).rejected

C4_EvaluatedAtMostOnce ==
    \A id \in Ids(segments), p \in Preds : Seg(segments, id).evals[p] <= 1

\* Both polarities are cached after one invocation, for a segment that calls
\* have evaluated since.
C4_Witness ==
    \E id \in Ids(segments) :
        /\ Seg(segments, id).evals["has_text"] = 1
        /\ {"has_text", "not_has_text"} \subseteq DOMAIN Seg(segments, id).filters
        /\ Rejected(segments, id) # "None"

\* C5: filter_results holds P exactly when it holds not_P, and the two
\* values are negations of each other, the repeat pair included.
C5_PolarityPairing ==
    \A id \in Ids(segments), n \in VideoFilter :
        LET f == Seg(segments, id).filters
        IN  /\ n \in DOMAIN f <=> OtherPolarity(n) \in DOMAIN f
            /\ n \in DOMAIN f => f[n] = ~f[OtherPolarity(n)]

\* A segment with an evaluated content pair that a cascade has marked.
C5_Witness ==
    \E id \in Ids(segments) :
        /\ Seg(segments, id).filters["is_repeat"]
        /\ "not_has_text" \in DOMAIN Seg(segments, id).filters
        /\ Clip(Seg(segments, id)) \notin used

\* C6: the repeat pair is (False, True) at construction; no cached entry is
\* ever removed; the only entries whose value changes are those of the
\* repeat pair, and they change from (False, True) to (True, False) only.
C6_RepeatPairOneWay ==
    /\ \A id \in Ids(segments) :
          Seg(segments, id).filters =
             [n \in {"is_repeat", "not_is_repeat"} |-> n = "not_is_repeat"]
    /\ [][\A id \in Ids(segments) :
             LET f == Seg(segments, id).filters
                 g == Seg(segments', id).filters
             IN  \A n \in DOMAIN f :
                    /\ n \in DOMAIN g
                    /\ g[n] # f[n]
                         => /\ n \in {"is_repeat", "not_is_repeat"}
                            /\ ~f["is_repeat"] /\ f["not_is_repeat"]
                            /\ g["is_repeat"] /\ ~g["not_is_repeat"]]_vars

\* A used segment is sampled again (under a list without not_is_repeat) and
\* is still marked used: its clip was returned and it is Passed.
C6_Witness ==
    \E id \in Ids(segments) :
        /\ Seg(segments, id).filters["is_repeat"]
        /\ Clip(Seg(segments, id)) \in used
        /\ "has_text" \in DOMAIN Seg(segments, id).filters

\* C7: the bucket for a configured duration d of a file of length L holds
\* exactly floor(L / d) segments.
C7_BucketSize ==
    \A l \in Leaves : \A d \in DOMAIN segments[l] :
        Len(segments[l][d]) = length[file[l]] \div d

\* C8: the i-th segment of the d-bucket spans [i*d, (i+1)*d) (i from 0), and
\* no segment ends after the end of the file.
C8_TilingShape ==
    \A id \in Ids(segments) :
        /\ Seg(segments, id).start = (id[3] - 1) * id[2]
        /\ Seg(segments, id).end = id[3] * id[2]
        /\ Seg(segments, id).file = file[id[1]]
        /\ Seg(segments, id).end <= length[file[id[1]]]

\* A bucket with two segments.
C8_Witness ==
    \E l \in Leaves : \E d \in DOMAIN segments[l] : Len(segments[l][d]) >= 2

\* A step of collection.sample(d, fl), however it ends.
SampleCall(d, fl) ==
    \/ SampleError(d, fl)
    \/ SampleNotFound(d, fl)
    \/ \E l \in Leaves, i \in 1..MaxLen : SampleSelect(d, fl, l, i)

\* C9: collection.sample raises SegmentNotFoundError exactly when no leaf
\* has a candidate for the duration under the filter list, and otherwise
\* returns a segment of a leaf that had one.
C9_NotFoundIffNoCandidate ==
    [][\A d \in 1..MaxDur, fl \in FilterLists :
          SampleCall(d, fl)
          => IF \A l \in Leaves : Candidates(l, d, fl) = {}
             THEN SampleNotFound(d, fl)
             ELSE \E l \in Leaves, i \in 1..MaxLen :
                     Candidates(l, d, fl) # {} /\ SampleSelect(d, fl, l, i)]_vars

\* C10: a segment that sample(d, fl) returns lies in the d-bucket, has
\* end - start = d, and had every filter of fl cached True when selected.
C10_ReturnedSegmentFits ==
    [][\A id \in Ids(segments), fl \in FilterLists :
          Returns(id, fl)
          => /\ Seg(segments, id).end - Seg(segments, id).start = id[2]
             /\ AllCachedTrue(Seg(segments, id), fl)
             /\ Clip(Seg(segments', id)) \in used'
             /\ Clip(Seg(segments', id)).end - Clip(Seg(segments', id)).start = id[2]]_vars

\* A sample under a list with a content filter has returned a segment.
C10_Witness ==
    \E id \in Ids(segments) :
        /\ Clip(Seg(segments, id)) \in used
        /\ Rejected(segments, id) = "False"
        /\ AllCachedTrue(Seg(segments, id), <<"not_has_text">>)

\* The segment fails the filter: the repeat pair by its cached value, a
\* content filter by what the predicate function gives on the clip.
Fails(seg, n) ==
    IF n \in {"is_repeat", "not_is_repeat"}
    THEN ~seg.filters[n]
    ELSE ~ApplyFilter(n, seg)

\* A collection of one source that holds one segment.
SingleSegment ==
    /\ tree = <<Source(1)>>
    /\ CountSegments(segments[1], DOMAIN segments[1]) = 1

\* C11: on a collection of one source holding one segment that fails a
\* filter, sample(d, [that filter]) raises SegmentNotFoundError (its
\* get_filtered_sources ends without error and returns no source) and
\* leaves the segment with rejected True.
C11_Exhaustion ==
    \A id \in Ids(segments), fl \in FilterLists :
        (SingleSegment /\ Len(fl) = 1 /\ Fails(Seg(segments, id), fl[1]))
        => LET r == get_filtered_sources(tree, segments, id[2], fl, <<>>)
           IN  /\ r.error = "none"
               /\ Len(r.sources) = 0
               /\ Rejected(r.segments, id) = "True"

\* C11 as amended: the call raises SegmentNotFoundError; it leaves rejected
\* True if the verdict was unknown before the call, and leaves a verdict of
\* True or False as it was.
C11_ExhaustionKeepsVerdict ==
    \A id \in Ids(segments), fl \in FilterLists :
        (SingleSegment /\ Len(fl) = 1 /\ Fails(Seg(segments, id), fl[1]))
        => LET r == get_filtered_sources(tree, segments, id[2], fl, <<>>)
           IN  /\ r.error = "none"
               /\ Len(r.sources) = 0
               /\ Rejected(r.segments, id) =
                    (IF Rejected(segments, id) = "None"
                     THEN "True" ELSE Rejected(segments, id))

\* The one segment of the collection shows text, has no cached result for
\* not_has_text and was rejected by a call.
C11_Witness ==
    /\ SingleSegment
    /\ \E id \in Ids(segments) :
          /\ has_text(Seg(segments, id))
          /\ "not_has_text" \notin DOMAIN Seg(segments, id).filters
          /\ Rejected(segments, id) = "True"

\* C12: when collection.sample(d, fl) fails with SegmentNotFoundError, every
\* segment of every source is exactly as it was before the call.
C12_FailureAtomicity ==
    \A d \in 1..MaxDur, fl \in FilterLists :
        LET r == get_filtered_sources(tree, segments, d, fl, <<>>)
        IN  (r.error = "none" /\ Len(r.sources) = 0) => r.segments = segments

\* C12 as amended: a sample call that fails with SegmentNotFoundError leaves
\* the cached filter results of every segment as they were (no cascade, no
\* evaluation); it turns an unknown verdict of a segment of the requested
\* bucket of a source of the collection into True, and leaves every other
\* verdict as it was.
C12_FailureKeepsCaches ==
    \A d \in 1..MaxDur, fl \in FilterLists :
        LET r == get_filtered_sources(tree, segments, d, fl, <<>>)
        IN  (r.error = "none" /\ Len(r.sources) = 0)
            => \A id \in Ids(segments) :
                  /\ Seg(r.segments, id).filters = Seg(segments, id).filters
                  /\ Seg(r.segments, id).evals = Seg(segments, id).evals
                  /\ Rejected(r.segments, id) =
                       (IF id[2] = d /\ InTree(id[1])
                           /\ Rejected(segments, id) = "None"
                        THEN "True" ELSE Rejected(segments, id))

\* A failed call for one duration has rejected a segment and left the
\* verdict of a segment of another bucket unknown; nothing was evaluated or
\* returned.
C12_Witness ==
    /\ used = {}
    /\ \E id \in Ids(segments), other \in Ids(segments) :
          /\ other[1] = id[1] /\ other[2] # id[2]
          /\ Rejected(segments, id) = "True"
          /\ Rejected(segments, other) = "None"
          /\ Seg(segments, id).evals["has_text"] = 0

\* The time ranges [start, end) of two segments have a point in common.
Intersects(a, b) == a.start < b.end /\ b.start < a.end

\* The repeat pair says the segment is used.
MarkedUsed(seg) == seg.filters["is_repeat"] /\ ~seg.filters["not_is_repeat"]

\* C13: when source.sample(d, fl) returns the segment S, then after the call
\* S and every segment of the same source, in every bucket, whose time
\* range intersects that of S have is_repeat True and not_is_repeat False.
C13_CrossBucketCascade ==
    \A id \in Ids(segments), fl \in FilterLists :
        LET r == get_filtered_segments(segments[id[1]], id[2], fl)
            after == sample_segment(r.segs, id[2], id[3])
        IN  id[3] \in r.found
            => \A other \in Ids(segments) :
                  (other[1] = id[1]
                     /\ (other = id
                           \/ Intersects(Seg(segments, other), Seg(segments, id))))
                  => MarkedUsed(after[other[2]][other[3]])

\* A segment of one bucket was returned and a segment of another bucket of
\* the same source, never returned itself, is marked used.
C13_Witness ==
    \E id \in Ids(segments), other \in Ids(segments) :
        /\ other[1] = id[1] /\ other[2] # id[2]
        /\ Clip(Seg(segments, id)) \in used
        /\ Intersects(Seg(segments, other), Seg(segments, id))
        /\ MarkedUsed(Seg(segments, other))
        /\ Clip(Seg(segments, other)) \notin used

\* C14: the cascade of a sample that returns S leaves every segment of the
\* source whose time range does not intersect that of S as it was, the
\* neighbouring tiles of S included; and a sample call changes no cached
\* filter result of a segment of another file, whose verdict changes only
\* as the evaluation of the call's filter list sets it.
C14_CascadeScope ==
    /\ [](\A id \in Ids(segments), fl \in FilterLists :
            LET r == get_filtered_segments(segments[id[1]], id[2], fl)
                after == sample_segment(r.segs, id[2], id[3])
            IN  id[3] \in r.found
                => \A other \in Ids(segments) :
                      (other[1] = id[1] /\ other # id
                         /\ ~Intersects(Seg(segments, other), Seg(segments, id)))
                      => after[other[2]][other[3]] = r.segs[other[2]][other[3]])
    /\ [][\A id \in Ids(segments), fl \in FilterLists :
             Returns(id, fl)
             => \A other \in Ids(segments) :
                   Seg(segments, other).file # Seg(segments, id).file
                   => /\ Seg(segments', other).filters = Seg(segments, other).filters
                      /\ Seg(segments', other).evals = Seg(segments, other).evals
                      /\ Rejected(segments', other)
                           \in {Rejected(segments, other),
                                passes_filters(Seg(segments, other), fl).seg.rejected}]_vars

\* A returned segment, the tile next to it in the same bucket and a segment
\* of another file: only the returned one is marked used.
C14_Witness ==
    \E id \in Ids(segments), next \in Ids(segments), far \in Ids(segments) :
        /\ next[1] = id[1] /\ next[2] = id[2]
        /\ Seg(segments, next).start = Seg(segments, id).end
        /\ Seg(segments, far).file # Seg(segments, id).file
        /\ Clip(Seg(segments, id)) \in used
        /\ MarkedUsed(Seg(segments, id))
        /\ ~MarkedUsed(Seg(segments, next))
        /\ ~MarkedUsed(Seg(segments, far))

\* C15: get_filtered_segments evaluates the filters of the list that have no
\* cached result, so that it returns every segment, not rejected before,
\* that fails no filter of the list, and leaves it with a cached result for
\* each of them.
C15_CandidatesEvaluate ==
    \A id \in Ids(segments), fl \in FilterLists :
        LET r == get_filtered_segments(segments[id[1]], id[2], fl)
        IN  (/\ Rejected(segments, id) # "True"
             /\ \A n \in Names(fl) : ~Fails(Seg(segments, id), n))
            => /\ id[3] \in r.found
               /\ \A n \in Names(fl) : n \in DOMAIN r.segs[id[2]][id[3]].filters

\* C15 as amended: get_filtered_segments evaluates nothing; it returns
\* exactly the segments of the bucket for which every filter of the list
\* has a cached result of True, and turns the unknown verdict of every
\* other segment of the bucket into True.
C15_CandidatesReadCache ==
    \A id \in Ids(segments), fl \in FilterLists :
        LET r == get_filtered_segments(segments[id[1]], id[2], fl)
            after == r.segs[id[2]][id[3]]
        IN  /\ after.filters = Seg(segments, id).filters
            /\ after.evals = Seg(segments, id).evals
            /\ id[3] \in r.found <=> AllCachedTrue(Seg(segments, id), fl)
            /\ (~AllCachedTrue(Seg(segments, id), fl)
                  /\ Rejected(segments, id) = "None")
                 => after.rejected = "True"

\* A segment that shows no text was rejected for not_has_text, which was
\* never evaluated for it.
C15_Witness ==
    \E id \in Ids(segments) :
        /\ ~has_text(Seg(segments, id))
        /\ "not_has_text" \notin DOMAIN Seg(segments, id).filters
        /\ Rejected(segments, id) = "True"
        /\ ~MarkedUsed(Seg(segments, id))

\* C16: for a duration the source was not constructed with,
\* get_filtered_segments returns no segment and leaves the source as it
\* was: no bucket appears for the duration (the buckets of a source are
\* those of its construction, always) and no segment changes; a collection
\* asked for such a duration finds no source.
C16_UnconfiguredDuration ==
    /\ [](\A d \in 1..MaxDur, fl \in FilterLists :
            /\ \A l \in Leaves :
                  d \notin DOMAIN segments[l]
                  => get_filtered_segments(segments[l], d, fl)
                       = [segs |-> segments[l], found |-> {}]
            /\ (\A l \in Leaves : d \notin DOMAIN segments[l])
                 => LET r == get_filtered_sources(tree, segments, d, fl, <<>>)
                    IN  r.segments = segments /\ r.sources = <<>>)
    /\ [][\A l \in Leaves : DOMAIN segments'[l] = DOMAIN segments[l]]_vars

\* A source that calls have evaluated has no bucket for a duration callers
\* ask for.
C16_Witness ==
    \E id \in Ids(segments), d \in 1..MaxDur :
        /\ d \notin DOMAIN segments[id[1]]
        /\ Rejected(segments, id) # "None"

\* C17: after source.filter_segments(fl), every segment of every bucket of
\* the source has a cached result for both polarities of every filter of fl.
C17_FilterAllComplete ==
    \A l \in Leaves, fl \in FilterLists :
        LET after == filter_segments(segments[l], fl)
        IN  /\ DOMAIN after = DOMAIN segments[l]
            /\ \A d \in DOMAIN after :
                  /\ Len(after[d]) = Len(segments[l][d])
                  /\ \A i \in 1..Len(after[d]), n \in Names(fl) :
                        {n, OtherPolarity(n)} \subseteq DOMAIN after[d][i].filters

\* The segments of two buckets of a source have cached results for has_text
\* and not_has_text, and no call has yet asked for candidates.
C17_Witness ==
    \E id \in Ids(segments), other \in Ids(segments) :
        /\ other[1] = id[1] /\ other[2] # id[2]
        /\ \A s \in {id, other} :
              /\ {"has_text", "not_has_text"} \subseteq DOMAIN Seg(segments, s).filters
              /\ Rejected(segments, s) = "None"

\* C18: collection.filter_sources() returns, and after it every segment of
\* every leaf source of the tree, the leaves of nested collections
\* included, has a cached result for every configured filter.
C18_FilterAllReachesLeaves ==
    LET r == filter_sources(tree, segments, filters)
    IN  /\ r.error = "none"
        /\ \A id \in Ids(segments) :
              InTree(id[1])
              => \A n \in Names(filters) : n \in DOMAIN Seg(r.segments, id).filters

\* C19: collection.get_filtered_sources(d, fl) returns exactly the leaf
\* sources of the tree, the leaves of nested collections included, that
\* have a candidate for d under fl.
C19_EligibleSources ==
    \A d \in 1..MaxDur, fl \in FilterLists :
        LET r == get_filtered_sources(tree, segments, d, fl, <<>>)
        IN  /\ r.error = "none"
            /\ { r.sources[k] : k \in 1..Len(r.sources) }
                 = { l \in Leaves : InTree(l) /\ Candidates(l, d, fl) # {} }

\* The sources of the collection that have a candidate for d under fl.
Eligible(d, fl) == { l \in Leaves : InTree(l) /\ Candidates(l, d, fl) # {} }

\* The sum of the weights of a set of sources.
RECURSIVE WeightOf(_)
WeightOf(ls) ==
    IF ls = {}
    THEN 0
    ELSE LET l == CHOOSE x \in ls : TRUE IN weight[l] + WeightOf(ls \ {l})

\* C20: when collection.sample(d, fl) draws a source, the probability it
\* gives source i is weight_i over the sum of the weights of the sources
\* that have a candidate: the probabilities are positive, sum to one, and
\* leave out the weight of every source without a candidate.
C20_WeightedSelection ==
    \A d \in 1..MaxDur, fl \in FilterLists :
        LET r == get_filtered_sources(tree, segments, d, fl, <<>>)
            p == normalized_weights(r.sources)
        IN  (r.error = "none" /\ Len(r.sources) > 0)
            => /\ Len(p) = Len(r.sources)
               /\ \A k \in 1..Len(p) :
                     /\ p[k][2] > 0 /\ p[k][1] > 0
                     /\ p[k][1] * WeightOf(Eligible(d, fl))
                          = weight[r.sources[k]] * p[k][2]
               /\ sum([k \in 1..Len(p) |-> p[k][1]]) = p[1][2]

\* After a source with two segments and weight 2 has given one, it is
\* drawn with probability 2/3 against a source of weight 1, and with
\* probability 1 for a duration only it has a candidate for.
C20_Witness ==
    /\ weight = <<2, 1>>
    /\ used # {}
    /\ \E d \in 1..MaxDur, fl \in FilterLists :
          LET r == get_filtered_sources(tree, segments, d, fl, <<>>)
          IN  /\ r.error = "none"
              /\ r.sources = <<1, 2>>
              /\ normalized_weights(r.sources)[1] = <<2, 3>>
    /\ \E d \in 1..MaxDur, fl \in FilterLists :
          LET r == get_filtered_sources(tree, segments, d, fl, <<>>)
          IN  /\ r.error = "none"
              /\ r.sources = <<2>>
              /\ normalized_weights(r.sources)[1] = <<1, 1>>

\* The clips of the segments of leaf l whose rejected verdict is true,
\* bucket after bucket.
RECURSIVE RejectedClips(_, _)
RejectedClips(l, ds) ==
    IF ds = <<>>
    THEN <<>>
    ELSE LET hit == { i \in 1..Len(segments[l][Head(ds)]) :
                        segments[l][Head(ds)][i].rejected = "True" }
             RECURSIVE Up(_)
             Up(i) == IF i > Len(segments[l][Head(ds)])
                      THEN <<>>
                      ELSE (IF i \in hit
                            THEN <<Clip(segments[l][Head(ds)][i])>>
                            ELSE <<>>) \o Up(i + 1)
         IN  Up(1) \o RejectedClips(l, Tail(ds))

\* The concatenation of the rejected clips of a sequence of leaves.
RECURSIVE RejectedOfLeaves(_)
RejectedOfLeaves(ls) ==
    IF ls = <<>>
    THEN <<>>
    ELSE RejectedClips(Head(ls), BucketOrder(DOMAIN segments[Head(ls)]))
         \o RejectedOfLeaves(Tail(ls))

\* C21: source.get_rejected_segments() returns exactly the segments whose
\* rejected verdict is true, one clip for each and none for a segment whose
\* verdict is unknown or false; collection.get_rejected_segments() returns
\* the concatenation, in child order, of the rejected segments of all the
\* leaves of the tree, the leaves of nested collections included.
C21_RejectedSegments ==
    /\ \A l \in Leaves :
          LET r == get_rejected_segments(segments[l], BucketOrder(DOMAIN segments[l]))
              rej == { id \in Ids(segments) :
                         id[1] = l /\ Rejected(segments, id) = "True" }
          IN  /\ Len(r) = Cardinality(rej)
              /\ { r[k] : k \in 1..Len(r) } = { Clip(Seg(segments, id)) : id \in rej }
    /\ list_get_rejected_segments(tree, segments) = RejectedOfLeaves(LeavesOf(tree))

\* A collection with a nested list whose leaf holds a rejected segment,
\* while the first source holds a segment that passed and is not listed.
C21_Witness ==
    /\ tree = <<Source(1), SourceList(<<2>>)>>
    /\ \E id \in Ids(segments) : id[1] = 1 /\ Rejected(segments, id) = "False"
    /\ \E id \in Ids(segments) : id[1] = 2 /\ Rejected(segments, id) = "True"
    /\ Len(list_get_rejected_segments(tree, segments)) = 1

\* The number of paths of kind k among the paths of a specification.
RECURSIVE CountKind(_, _)
CountKind(paths, k) ==
    IF paths = <<>>
    THEN 0
    ELSE (IF Head(paths).kind = k THEN 1 ELSE 0)
         + CountKind(Head(paths).entries, k)
         + CountKind(Tail(paths), k)

\* The paths of the constructor call, as a list.
CalledPaths == called.sources

Constructed == called.op = "FilteredVideoSourceList" /\ returned # NoCall

\* C22 as stated: when a path of the specification (single path, directory,
\* glob or explicit list) is not an existing regular file, construction of
\* the collection does not fail and builds the sources of the other files.
C22_MissingLeafOmitted ==
    (Constructed /\ CountKind(CalledPaths, "missing") > 0)
    => /\ returned.value.error = "none"
       /\ CountKind(returned.value.sources, "FilteredVideoSource")
            = CountKind(CalledPaths, "file")

\* C22: a missing file is skipped only in the listing of a directory given
\* as the single path: the collection then holds the sources of the files
\* that exist, and construction fails with IOError when none exists.  A
\* single path that is missing, a missing path in an explicit list and a
\* missing glob match make the construction of the collection fail; it
\* fails with FileNotFoundError when the missing path is the first one
\* that is not a regular file.
C22_MissingLeafInDirectoryOmitted ==
    Constructed =>
        LET paths == CalledPaths
            value == returned.value
            FirstOther(ps) == CHOOSE k \in 1..Len(ps) :
                                /\ ps[k].kind # "file"
                                /\ \A j \in 1..(k - 1) : ps[j].kind = "file"
        IN  /\ (called.form = "str" /\ called.sources[1].kind = "missing")
                => value.error = "FileNotFoundError"
            /\ (called.form = "str" /\ called.sources[1].kind = "directory")
                => IF CountKind(paths, "file") = 0
                   THEN value.error = "IOError"
                   ELSE /\ value.error = "none"
                        /\ Len(value.sources) = CountKind(paths, "file")
                        /\ \A k \in 1..Len(value.sources) :
                              value.sources[k].kind = "FilteredVideoSource"
            /\ (called.form = "list"
                  /\ \E k \in 1..Len(paths) : paths[k].kind = "missing")
                => /\ value.error # "none"
                   /\ paths[FirstOther(paths)].kind = "missing"
                        => value.error = "FileNotFoundError"
            /\ (called.form = "str" /\ called.sources[1].kind = "glob"
                  /\ \E k \in 1..Len(called.sources[1].entries) :
                        called.sources[1].entries[k].kind = "missing")
                => /\ value.error # "none"
                   /\ called.sources[1].entries[FirstOther(called.sources[1].entries)].kind
                        = "missing"
                        => value.error = "FileNotFoundError"

\* A directory listing a file and a missing file has given a collection of
\* one source.
C22_Witness ==
    /\ Constructed
    /\ called.form = "str"
    /\ called.sources = <<Entry("directory",
                                <<Entry("missing", <<>>), Entry("file", <<>>)>>)>>
    /\ returned.value = Ok(<<Entry("FilteredVideoSource", <<>>)>>)

\* The sources get_filtered_sources evaluates: the children of the
\* collection up to its first nested collection.
Evaluated(l) ==
    \E k \in 1..Len(tree) :
        /\ tree[k] = Source(l)
        /\ \A j \in 1..k : tree[j].kind = "source"

\* C23 as stated: where text detection is not available, a sample call
\* whose filter list names a text filter is refused before any segment is
\* evaluated: it changes the verdict of no segment and does not end in
\* SegmentNotFound.
C23_UnavailableDetected ==
    \A d \in 1..MaxDur, fl \in FilterLists :
        NamesTextFilter(fl)
        => LET r == get_filtered_sources(tree, segments, d, fl, <<>>)
           IN  /\ r.segments = segments
               /\ ~(r.error = "none" /\ Len(r.sources) = 0)

\* C23: where text detection is not available no segment has a cached
\* result for a text filter, and sample makes no check of the filters it
\* is given: a call whose filter list names a text filter finds no
\* source, turns the unknown verdict of every segment of the requested
\* bucket of every source it evaluates to true, keeps the verdicts already
\* set and every cached result, and ends in SegmentNotFound, or in
\* AttributeError at a nested collection.
C23_UnavailableRejects ==
    /\ \A id \in Ids(segments) :
          DOMAIN Seg(segments, id).filters = {"is_repeat", "not_is_repeat"}
    /\ \A d \in 1..MaxDur, fl \in FilterLists :
          NamesTextFilter(fl)
          => LET r == get_filtered_sources(tree, segments, d, fl, <<>>)
             IN  /\ r.sources = <<>>
                 /\ r.error = (IF \E k \in 1..Len(tree) : tree[k].kind = "list"
                               THEN "AttributeError" ELSE "none")
                 /\ \A id \in Ids(segments) :
                       /\ Seg(r.segments, id).filters = Seg(segments, id).filters
                       /\ Rejected(r.segments, id)
                            = (IF id[2] = d /\ Evaluated(id[1])
                                  /\ Rejected(segments, id) = "None"
                               THEN "True"
                               ELSE Rejected(segments, id))

\* A segment not marked a repeat is rejected after a call that named
\* not_has_text; another segment passed an earlier call and keeps its
\* verdict under the next call naming not_has_text.
C23_Witness ==
    /\ filters = AvailableDefaultFilters
    /\ \E id \in Ids(segments) :
          /\ Rejected(segments, id) = "True"
          /\ Seg(segments, id).filters["not_is_repeat"]
    /\ \E id \in Ids(segments) :
          /\ Rejected(segments, id) = "False"
          /\ Evaluated(id[1])
          /\ LET r == get_filtered_sources(tree, segments, id[2],
                                           <<"not_has_text">>, <<>>)
             IN  r.error = "none" /\ r.sources = <<>>
                 /\ Rejected(r.segments, id) = "False"

\* The fields of a segment the persisted record is read back by.
SameSegment(a, b) ==
    /\ a.filename = b.filename
    /\ a.source_start_time = b.source_start_time
    /\ a.duration = b.duration

\* The handles __setstate__ opens for a persisted state.
Rebuilt(clip) ==
    /\ clip.reader = <<clip.filename>>
    /\ clip.audio = <<clip.filename, clip.source_start_time,
                      clip.source_start_time + clip.duration>>

InsideClip(clip, start_time, end_time) ==
    /\ end_time # None
    /\ 0 <= start_time
    /\ start_time <= end_time[1]
    /\ end_time[1] <= clip.duration

\* C25: the clip of a segment record (file, start, end) is a clip of that
\* file with source_start_time = start, duration = end - start and
\* source_end_time = end; subclip(s, e) with 0 <= s <= e <= duration gives
\* source_start_time = the parent's source_start_time + s and duration
\* e - s, so that a subclip of a subclip starts at the sum of the two
\* offsets; a start beyond the duration of the clip raises ValueError (a
\* negative start counts back from the end of the clip and is not one).
C25_ClipMaterialization ==
    /\ returned.op = "segment"
       => /\ returned.value.error = "none"
          /\ returned.value.clip.filename = called.seg.file
          /\ returned.value.clip.source_start_time = called.seg.start
          /\ returned.value.clip.duration = called.seg.end - called.seg.start
          /\ source_end_time(returned.value.clip) = called.seg.end
    /\ returned.op = "subclip"
       => /\ InsideClip(called.clip, called.start_time, called.end_time)
             => /\ returned.value.error = "none"
                /\ returned.value.clip.filename = called.clip.filename
                /\ returned.value.clip.source_start_time
                     = called.clip.source_start_time + called.start_time
                /\ returned.value.clip.duration
                     = called.end_time[1] - called.start_time
          /\ (0 <= called.start_time /\ called.start_time > called.clip.duration)
             => returned.value.error = "ValueError"
          /\ (/\ called.outer # <<>>
              /\ InsideClip(called.clip, called.start_time, called.end_time)
              /\ InsideClip(called.outer[1].clip, called.outer[1].start_time,
                            called.outer[1].end_time))
             => returned.value.clip.source_start_time
                  = called.outer[1].clip.source_start_time
                    + called.outer[1].start_time + called.start_time

\* A subclip from 1 to 2 of the subclip from 1 to 3 of a whole file
\* starts at 2 in the file.
C25_Witness ==
    /\ returned.op = "subclip"
    /\ called.outer # <<>>
    /\ called.outer[1].clip.source_start_time = 0
    /\ called.outer[1].start_time = 1
    /\ called.outer[1].end_time = <<3>>
    /\ called.start_time = 1
    /\ called.end_time = <<2>>
    /\ returned.value.error = "none"
    /\ returned.value.clip.source_start_time = 2
    /\ returned.value.clip.duration = 1

\* The segment but for its is_repeat / not_is_repeat entries.
NonRepeat(seg) ==
    [seg EXCEPT !.filters =
        [n \in DOMAIN seg.filters \ {"is_repeat", "not_is_repeat"} |-> seg.filters[n]]]

\* C26: the cascade of sample (sample_segment on any segment of a source)
\* writes only is_repeat / not_is_repeat entries: every segment of the
\* source has the same rejected verdict, the same other cached results and
\* the same set of cached filter names after it as before it.
C26_CascadeWritesRepeatOnly ==
    \A id \in Ids(segments) :
        LET after == sample_segment(segments[id[1]], id[2], id[3])
        IN  /\ DOMAIN after = DOMAIN segments[id[1]]
            /\ \A d \in DOMAIN after :
                  /\ Len(after[d]) = Len(segments[id[1]][d])
                  /\ \A i \in 1..Len(after[d]) :
                        /\ NonRepeat(after[d][i]) = NonRepeat(segments[id[1]][d][i])
                        /\ DOMAIN after[d][i].filters
                             = DOMAIN segments[id[1]][d][i].filters

\* A sample call has returned a segment that holds a text result and the
\* verdict false, and its cascade has marked a segment of another bucket
\* whose verdict is still unknown.
C26_Witness ==
    /\ used # {}
    /\ \E a \in Ids(segments), b \in Ids(segments) :
          /\ a[1] = b[1] /\ a[2] # b[2]
          /\ Clip(Seg(segments, a)) \in used
          /\ MarkedUsed(Seg(segments, a))
          /\ Rejected(segments, a) = "False"
          /\ "not_has_text" \in DOMAIN Seg(segments, a).filters
          /\ MarkedUsed(Seg(segments, b))
          /\ Rejected(segments, b) = "None"

\* C27 as stated: a segment whose verdict is false and which the cascade
\* has marked a repeat is not returned by the next candidates evaluation
\* whose filter list contains not_is_repeat, and that evaluation sets its
\* verdict to true.
C27_PassedToRejected ==
    \A id \in Ids(segments), fl \in FilterLists :
        (/\ "not_is_repeat" \in Names(fl)
         /\ Rejected(segments, id) = "False"
         /\ MarkedUsed(Seg(segments, id)))
        => LET r == get_filtered_segments(segments[id[1]], id[2], fl)
           IN  /\ id[3] \notin r.found
               /\ r.segs[id[2]][id[3]].rejected = "True"

\* C27: a segment whose verdict is false and which the cascade has marked
\* a repeat is not returned by a candidates evaluation whose filter list
\* contains not_is_repeat, and keeps the verdict false: reject writes only
\* over an unknown verdict, so no call, the repeat cascade included, takes
\* a segment from Passed to Rejected.
C27_PassedStaysPassed ==
    /\ [](\A id \in Ids(segments), fl \in FilterLists :
            (/\ "not_is_repeat" \in Names(fl)
             /\ Rejected(segments, id) = "False"
             /\ MarkedUsed(Seg(segments, id)))
            => LET r == get_filtered_segments(segments[id[1]], id[2], fl)
               IN  /\ id[3] \notin r.found
                   /\ r.segs[id[2]][id[3]].rejected = "False")
    /\ [][\A id \in Ids(segments) :
            Rejected(segments, id) = "False" => Rejected(segments', id) # "True"]_vars

\* A segment was returned under not_is_repeat, is marked a repeat, and a
\* later candidates evaluation under not_is_repeat has rejected its
\* neighbour in the bucket but left it Passed.
C27_Witness ==
    \E a \in Ids(segments), b \in Ids(segments) :
        /\ a[1] = b[1] /\ a[2] = b[2] /\ a[3] # b[3]
        /\ Clip(Seg(segments, a)) \in used
        /\ MarkedUsed(Seg(segments, a))
        /\ Rejected(segments, a) = "False"
        /\ Rejected(segments, b) = "True"
        /\ "not_has_text" \in DOMAIN Seg(segments, b).filters

\* The segment's cached results for the content filters, with the number
\* of evaluations behind them.
ContentResults(seg) ==
    [filters |-> [n \in DOMAIN seg.filters \ {"is_repeat", "not_is_repeat"} |->
                    seg.filters[n]],
     evals |-> seg.evals]

\* C28: the buckets of a source share no filter state.  A candidates
\* evaluation for one duration leaves every segment of the other buckets
\* as it was; filter_segments gives every segment the results of its own
\* evaluation, whatever an overlapping segment of another bucket holds;
\* and in every call the verdicts change in one bucket of a source at most
\* and content results change only for a segment that had none, while
\* only the repeat pair is written across buckets.
C28_BucketsNotAliased ==
    /\ [](/\ \A l \in Leaves, d \in 1..MaxDur, fl \in FilterLists :
                LET r == get_filtered_segments(segments[l], d, fl)
                IN  \A d2 \in DOMAIN segments[l] :
                        d2 # d => r.segs[d2] = segments[l][d2]
          /\ \A id \in Ids(segments), fl \in FilterLists :
                LET before == Seg(segments, id)
                    after == filter_segments(segments[id[1]], fl)[id[2]][id[3]]
                IN  /\ after = filter(before, fl)
                    /\ \A n \in Names(fl) :
                          n \notin DOMAIN before.filters
                          => /\ after.filters[n] = ApplyFilter(n, before)
                             /\ after.evals[Underlying(n)]
                                  = before.evals[Underlying(n)] + 1)
    /\ [][/\ \A a \in Ids(segments), b \in Ids(segments) :
               (/\ a[1] = b[1] /\ a[2] # b[2]
                /\ Rejected(segments', a) # Rejected(segments, a))
               => Rejected(segments', b) = Rejected(segments, b)
          /\ \A id \in Ids(segments) :
               \/ ContentResults(Seg(segments', id)) = ContentResults(Seg(segments, id))
               \/ /\ DOMAIN ContentResults(Seg(segments, id)).filters = {}
                  /\ Seg(segments', id).filters["has_text"]
                       = has_text(Seg(segments, id))]_vars

\* Two overlapping segments of two buckets of one source hold different
\* results for not_has_text and different verdicts.
C28_Witness ==
    \E a \in Ids(segments), b \in Ids(segments) :
        /\ a[1] = b[1] /\ a[2] # b[2]
        /\ overlaps_segment(Seg(segments, a), Seg(segments, b))
        /\ "not_has_text" \in DOMAIN Seg(segments, a).filters
        /\ "not_has_text" \in DOMAIN Seg(segments, b).filters
        /\ Seg(segments, a).filters["not_has_text"]
             # Seg(segments, b).filters["not_has_text"]
        /\ Rejected(segments, a) = "True"
        /\ Rejected(segments, b) = "False"

\* Both callers have their clip back from calls naming not_is_repeat.
BothReturned(t1, t2) ==
    /\ t1 # t2
    /\ called.calls[t1].pc = "done"
    /\ called.calls[t2].pc = "done"
    /\ "not_is_repeat" \in Names(called.calls[t1].filters)
    /\ "not_is_repeat" \in Names(called.calls[t2].filters)

C30_DefaultFilters ==
    \A d \in 1..MaxDur :
        Eligible(d, filters) # {}
        => sample_without_filters(tree, segments, d).error = "none"

\* ---- C31
\* The number of segments in the d-buckets of the leaves of the collection.
TotalSegments(d) ==
    Cardinality({ id \in Ids(segments) : InTree(id[1]) /\ id[2] = d })

\* The segments of the d-buckets that carry the repeat mark.
MarkedSegments(d) ==
    { id \in Ids(segments) :
        InTree(id[1]) /\ id[2] = d /\ MarkedUsed(Seg(segments, id)) }

\* A sample of d under the filter list would return a segment.
SampleSucceeds(d, fl) ==
    LET r == get_filtered_sources(tree, segments, d, fl, <<>>)
    IN  r.error = "none" /\ Len(r.sources) > 0

ReportedRejected(l) ==
    LET r == get_rejected_segments(segments[l], BucketOrder(DOMAIN segments[l]))
    IN  { r[k] : k \in 1..Len(r) }

\* C32: a segment whose rejected verdict is false is not among the rejected
\* segments of its source, and the verdict stays false in every later call,
\* so it is never reported afterwards; a segment a sample call returns has
\* the verdict false when the call returns, and keeps it after it has been
\* marked a repeat and has failed a later not_is_repeat evaluation.
C32_PassedNeverReported ==
    /\ [](\A id \in Ids(segments) :
            Rejected(segments, id) = "False"
              => Clip(Seg(segments, id)) \notin ReportedRejected(id[1]))
    /\ [][\A id \in Ids(segments) :
            /\ Rejected(segments, id) = "False"
                 => /\ Rejected(segments', id) = "False"
                    /\ \A fl \in FilterLists :
                          ("not_is_repeat" \in Names(fl) /\ MarkedUsed(Seg(segments, id)))
                            => id[3] \notin Candidates(id[1], id[2], fl)
            /\ \A fl \in FilterLists :
                  Returns(id, fl) => Rejected(segments', id) = "False"]_vars

\* A returned segment carries the repeat mark and the verdict false, and is
\* not reported, while a segment of another bucket that overlaps it has been
\* marked by the cascade, has failed a later evaluation and is reported.
C32_Witness ==
    \E a \in Ids(segments), b \in Ids(segments) :
        /\ a[1] = b[1] /\ a[2] # b[2]
        /\ overlaps_segment(Seg(segments, a), Seg(segments, b))
        /\ Clip(Seg(segments, a)) \in used
        /\ MarkedUsed(Seg(segments, a))
        /\ Rejected(segments, a) = "False"
        /\ MarkedUsed(Seg(segments, b))
        /\ Rejected(segments, b) = "True"
        /\ Clip(Seg(segments, a)) \notin ReportedRejected(a[1])
        /\ Clip(Seg(segments, b)) \in ReportedRejected(a[1])

\* ---- C33
\* C33: VideoSource.sample(duration), whenever it returns, returns a clip
\* of exactly the requested duration whose source range lies inside one
\* configured time boundary at least as long as the duration, or inside
\* [0, file duration] when no time boundaries are configured.
C33_SampleInsideBoundary ==
    (returned.op = "VideoSource.sample" /\ returned.value.error = "none")
    => LET clip == returned.value.clip
           tb == called.self.time_boundaries
       IN  /\ clip.duration = called.duration
           /\ IF tb # <<>>
              THEN \E i \in 1..Len(tb) :
                      /\ tb[i][2] - tb[i][1] >= called.duration
                      /\ tb[i][1] <= clip.source_start_time
                      /\ source_end_time(clip) <= tb[i][2]
              ELSE /\ 0 <= clip.source_start_time
                   /\ source_end_time(clip) <= called.self.segment.duration

\* ---- C34
\* C34: the filter list generate builds from the saved settings holds
\* not_is_repeat exactly when allow_repeats is false and, for each of
\* has_low_contrast, has_cut and has_text, the positive filter when the
\* radio setting is Include, the not_ filter when it is Exclude and neither
\* when it is Off.
C34_FiltersFromSettings ==
    (/\ generator # None
     /\ generator[1].video_filters # None
     /\ generator[1].video_filters[1] = generate_filters(settings))
    => LET GeneratedFilters == Names(generator[1].video_filters[1])
           OtherPolarityName(name) ==
               CASE name = "has_low_contrast" -> "not_has_low_contrast"
                 [] name = "has_cut" -> "not_has_cut"
                 [] name = "has_text" -> "not_has_text"
       IN  /\ "not_is_repeat" \in GeneratedFilters <=> ~settings.allow_repeats
           /\ \A name \in {"has_low_contrast", "has_cut", "has_text"} :
                 /\ name \in GeneratedFilters <=> settings[name] = "Include"
                 /\ OtherPolarityName(name) \in GeneratedFilters
                      <=> settings[name] = "Exclude"

\* ---- C35
\* C35: after the initial generation and any sequence of split and
\* end-of-slice slider updates the slices are a contiguous partition of the
\* beat indexes: the first slice starts at index 0, every following slice
\* starts at the end_index of the slice before it plus one, every slice
\* has start_index <= end_index, and the last slice ends at the last beat
\* index: that of the audio, or of the count the beat groups are built
\* with while there is no audio.
C35_ContiguousPartition ==
    /\ slices[1].start_index = 0
    /\ \A i \in 2..Len(slices) :
          slices[i].start_index = slices[i - 1].end_index + 1
    /\ \A i \in 1..Len(slices) : slices[i].start_index <= slices[i].end_index
    /\ slices[Len(slices)].end_index =
          IF beats = None THEN DefaultCount - 1 ELSE beats[1] - 1

\* ---- C36
\* C36: a click on the Remove button of a slice that is not the last one
\* replaces that slice and its successor by a single slice running from
\* the removed slice's start_index to the successor's end_index, with the
\* larger of the two intervals; the slice count decreases by one and all
\* other slices are unchanged.
C36_RemoveMerges ==
    \A i \in 1..Len(slices) :
        RemoveInteractive(slices, i)
        => LET r == remove_slice(slices, Sliders(slices)[i])
               s == slices
               Merged ==
                   SubSeq(s, 1, i - 1)
                   \o <<Slice(s[i].start_index, s[i + 1].end_index,
                              s[i].start_time, s[i + 1].end_time,
                              max(s[i].interval, s[i + 1].interval))>>
                   \o SubSeq(s, i + 2, Len(s))
           IN  /\ r.error = "none"
               /\ r.slices = Merged
               /\ Len(r.slices) = Len(slices) - 1

====
